---------------------------- MODULE Spec2Model ----------------------------
(***************************************************************************)
(* ClipX: the clipboard history store and watcher (clipboard_monitor.py)   *)
(* and the global hotkey filter (hotkey_handler.py).                       *)
(*                                                                         *)
(* Conventions of the model                                                *)
(*   - a Python Optional is a sequence of length 0 (None) or 1 (the value) *)
(*   - a str is a sequence of one-character strings                        *)
(*   - a bytes value is a sequence of numbers in 0..255                    *)
(*   - a datetime is [second, microsecond]                                 *)
(*   - list index i of Python is index i+1 of the TLA+ sequence            *)
(***************************************************************************)
EXTENDS Integers, Sequences, FiniteSets, TLC

VARIABLES
    history,            \* ClipboardMonitor.history
    max_history,        \* ClipboardMonitor.max_history
    last_change_count,  \* ClipboardMonitor._last_change_count
    running,            \* ClipboardMonitor._running
    file,               \* HISTORY_FILE on disk: None, or the JSON document
    pasteboard,         \* NSPasteboard.generalPasteboard(): changeCount and contents
    now,                \* the wall clock read by datetime.now()
    current_count,      \* the changeCount read by the latest _check_clipboard
    last,               \* the latest call: operation, argument, return value, effects
    old_history,        \* ClipboardMonitor.history when the latest call began
    hk_event,           \* the latest event delivered to HotkeyHandler._event_callback
    hk_result,          \* what that callback did and returned
    terminated,         \* NSApp.terminate_ has been called
    pos_args,           \* the latest arguments of calculate_popup_position, and the screens
    pos_result,         \* the tuple it returned
    heap,               \* the list objects of the monitor, by identity
    history_ref,        \* the list object bound to ClipboardMonitor.history
    snapshot_ref,       \* the list object the latest get_history returned
    snapshot_copy,      \* its contents when it was returned
    snapshot_later,     \* the operations executed since it was returned
    heap_clock,         \* the clock read by datetime.now() in this part
    popup,              \* the ClipboardPopup panel, its timers and its effects
    popup_call,         \* the latest call on the popup: the popup before it, its placement
    permission,         \* accessibility permission as the system holds it now
    main_pc,            \* where the main thread is in applicationDidFinishLaunching_
    has_accessibility_permission,  \* ClipXDelegate._has_accessibility_permission
    permission_check_timer,        \* ClipXDelegate._permission_check_timer
    live_timers,        \* the repeating permission timers that are scheduled
    hotkey_handler,     \* ClipXDelegate._hotkey_handler: index into handlers, 0 for None
    handlers,           \* every HotkeyHandler constructed, with its thread
    main_queue,         \* selectors waiting in performSelectorOnMainThread
    ui_log,             \* the UI and application actions done, with their thread
    key_events,         \* the number of key events delivered to a tap
    disk,               \* HISTORY_FILE as anything may have left it
    constructed,        \* the latest ClipboardMonitor built from it
    others,             \* the ClipX processes started before this one
    new_instance,       \* this process, from main() on
    lock,               \* ClipboardMonitor._lock: its holder, or "free"
    threads,            \* what the poll thread and the main thread are doing
    shared_history,     \* ClipboardMonitor.history as the threads share it
    shared_file,        \* HISTORY_FILE as the threads write it
    monitor_thread,     \* ClipboardMonitor._thread: index into poll_threads, 0 for None
    poll_threads,       \* every thread started on _poll_loop, and where it is
    stop_pc,            \* where the main thread is inside stop()
    rewrite,            \* the pasteboard write of confirm_selection in progress
    popup_visible,      \* ClipXDelegate._popup_visible
    session             \* what has been done from the popup since it was last shown

storeVars == <<history, max_history, last_change_count, running, file,
               pasteboard, now, current_count, last, old_history>>
hotkeyVars == <<hk_event, hk_result, terminated>>
positionVars == <<pos_args, pos_result>>
snapshotVars == <<heap, history_ref, snapshot_ref, snapshot_copy, snapshot_later,
                  heap_clock>>
loadVars == <<disk, constructed>>
instanceVars == <<others, new_instance>>
lockVars == <<lock, threads, shared_history, shared_file>>
watcherVars == <<monitor_thread, poll_threads, stop_pc>>
delegateVars == <<popup_visible, session>>
laterVars == <<loadVars, instanceVars, lockVars, watcherVars, rewrite, delegateVars>>
\* what the operations of each part leave alone
listenerVars == <<permission, main_pc, has_accessibility_permission,
                  permission_check_timer, live_timers, hotkey_handler, handlers,
                  main_queue, ui_log, key_events>>
\* what the operations on the monitor and on the delegate leave alone
baseVars == <<hotkeyVars, positionVars, snapshotVars, listenerVars, loadVars,
              instanceVars, lockVars>>
nonWatcherStoreVars == <<baseVars, popup, popup_call, rewrite, delegateVars>>
nonRewriteStoreVars == <<baseVars, popup, popup_call, watcherVars, delegateVars>>
nonDelegateVars == <<baseVars, watcherVars, rewrite>>
nonStoreVars == <<hotkeyVars, positionVars, snapshotVars, popup, popup_call,
                  listenerVars,
    laterVars>>
\* the event filter leaves alone everything but its own variables and, when a
\* listener thread runs it, the listener
nonHotkeyVars == <<storeVars, positionVars, snapshotVars, popup, popup_call,
    laterVars>>
nonPositionVars == <<storeVars, hotkeyVars, snapshotVars, popup, popup_call,
                     listenerVars,
    laterVars>>
nonSnapshotVars == <<storeVars, hotkeyVars, positionVars, popup, popup_call,
                     listenerVars,
    laterVars>>
\* popup_call is written by the specifications that observe the calls
nonPopupVars == <<storeVars, hotkeyVars, positionVars, snapshotVars, listenerVars,
    laterVars>>
nonLoadVars == <<storeVars, hotkeyVars, positionVars, snapshotVars, popup,
                 popup_call, listenerVars, instanceVars, lockVars, watcherVars,
                 rewrite, delegateVars>>
nonInstanceVars == <<storeVars, hotkeyVars, positionVars, snapshotVars, popup,
                     popup_call, listenerVars, loadVars, lockVars, watcherVars,
                     rewrite, delegateVars>>
nonLockVars == <<storeVars, hotkeyVars, positionVars, snapshotVars, popup,
                 popup_call, listenerVars, loadVars, instanceVars, watcherVars,
                 rewrite, delegateVars>>
nonListenerVars == <<storeVars, hotkeyVars, positionVars, snapshotVars, popup,
                     popup_call,
    laterVars>>
vars == <<history, max_history, last_change_count, running, file, pasteboard,
          now, current_count, last, old_history, hk_event, hk_result, terminated,
          pos_args, pos_result, heap, history_ref, snapshot_ref, snapshot_copy,
          snapshot_later, heap_clock, popup, popup_call, permission, main_pc,
          has_accessibility_permission, permission_check_timer, live_timers,
          hotkey_handler, handlers, main_queue, ui_log, key_events,
          disk, constructed, others, new_instance, lock, threads,
          shared_history, shared_file, monitor_thread, poll_threads,
          stop_pc, rewrite, popup_visible, session>>

---------------------------------------------------------------------------
(* Bounds of the model *)

\* ClipX processes already started when this one is launched
MaxInstances == 2

\* the largest max_history a monitor is constructed with
MaxCap == 3
\* the number of pasteboard changes in a run
MaxChanges == 4
\* the number of entries added while list identities are followed
MaxAdds == 3
\* the number of selections confirmed in a run of the popup
MaxConfirms == 1
\* the number of key events delivered to the taps of the listeners
MaxKeys == 2

(* Program constants *)

\* text_content[:50] of the on_change preview
PreviewLen == 50
\* key codes of the event filter
KEY_V == 9
KEY_C == 8
\* items[:50] of update_items
PopupItemCap == 50

---------------------------------------------------------------------------
(* Python values *)

None == <<>>
Some(x) == <<x>>
IsNone(o) == o = <<>>
Get(o) == o[1]
\* truthiness of an Optional[str] or Optional[bytes]: not None and not empty
Truthy(o) == o # <<>> /\ Len(o[1]) > 0

Min(a, b) == IF a <= b THEN a ELSE b

Whitespace == {" ", "\n", "\t"}

RECURSIVE lstrip(_)
lstrip(s) == IF Len(s) > 0 /\ s[1] \in Whitespace THEN lstrip(Tail(s)) ELSE s

RECURSIVE rstrip(_)
rstrip(s) ==
    IF Len(s) > 0 /\ s[Len(s)] \in Whitespace
    THEN rstrip(SubSeq(s, 1, Len(s) - 1)) ELSE s

\* str.strip()
strip(s) == rstrip(lstrip(s))

\* list.pop(index) leaves this list, index counted from 0
RemoveAt(s, index) == SubSeq(s, 1, index) \o SubSeq(s, index + 2, Len(s))

---------------------------------------------------------------------------
(* base64 and datetime text forms used by the history file *)

B64Pad == 64

\* base64.b64encode(data).decode('ascii'): sextets 0..63, and 64 for '='
RECURSIVE b64encode(_)
b64encode(b) ==
    IF Len(b) = 0 THEN <<>>
    ELSE IF Len(b) = 1
        THEN <<b[1] \div 4, (b[1] % 4) * 16, B64Pad, B64Pad>>
    ELSE IF Len(b) = 2
        THEN <<b[1] \div 4, (b[1] % 4) * 16 + b[2] \div 16, (b[2] % 16) * 4, B64Pad>>
    ELSE <<b[1] \div 4, (b[1] % 4) * 16 + b[2] \div 16,
           (b[2] % 16) * 4 + b[3] \div 64, b[3] % 64>>
         \o b64encode(SubSeq(b, 4, Len(b)))

\* base64.b64decode(text)
RECURSIVE b64decode(_)
b64decode(s) ==
    IF Len(s) < 4 THEN <<>>
    ELSE (IF s[3] = B64Pad
            THEN <<s[1] * 4 + s[2] \div 16>>
          ELSE IF s[4] = B64Pad
            THEN <<s[1] * 4 + s[2] \div 16, (s[2] % 16) * 16 + s[3] \div 4>>
          ELSE <<s[1] * 4 + s[2] \div 16, (s[2] % 16) * 16 + s[3] \div 4,
                 (s[3] % 4) * 64 + s[4]>>)
         \o b64decode(SubSeq(s, 5, Len(s)))

\* datetime.isoformat(): the fraction is written only when microsecond # 0
isoformat(ts) ==
    IF ts.microsecond = 0 THEN <<ts.second>> ELSE <<ts.second, ts.microsecond>>

\* datetime.fromisoformat(text)
fromisoformat(s) ==
    [second |-> s[1], microsecond |-> IF Len(s) > 1 THEN s[2] ELSE 0]

\* datetime.now(): the clock ticks in half seconds
datetime_now(t) == [second |-> t \div 2, microsecond |-> (t % 2) * 500000]

---------------------------------------------------------------------------
(* AppKit image handling, as far as the monitor depends on it *)

PNG_MAGIC == 137
TIFF_MAGIC == 77

\* NSImage.alloc().initWithData_(data) is not None: the data is a readable image
NSImage_initWithData(data) ==
    Len(data) > 0 /\ data[1] \in {PNG_MAGIC, TIFF_MAGIC}

\* image_to_png_data(image) of a readable TIFF image, when the conversion succeeds
image_to_png_data(tiff) == <<PNG_MAGIC>> \o Tail(tiff)

\* create_thumbnail(image, 32)
create_thumbnail(data) == Some("thumbnail")

---------------------------------------------------------------------------
(* ClipboardItem and the history list *)

ClipboardItem(content_type, timestamp, text_content, image_data, thumbnail) ==
    [content_type |-> content_type, timestamp |-> timestamp,
     text_content |-> text_content, image_data |-> image_data,
     thumbnail |-> thumbnail]

\* the dedup of _add_to_history without its branch for mixed entries
DedupNoMixed(h, content_type, text_content, image_data) ==
    IF content_type = "text" /\ Truthy(text_content)
    THEN LET keep(item) == ~(item.content_type = "text"
                             /\ item.text_content = text_content)
         IN SelectSeq(h, keep)
    ELSE IF content_type = "image" /\ Truthy(image_data)
    THEN LET keep(item) == ~(item.content_type = "image"
                             /\ item.image_data = image_data)
         IN SelectSeq(h, keep)
    ELSE h

\* the lines of _add_to_history that drop the entries identical to the new one
Dedup(h, content_type, text_content, image_data) ==
    IF content_type = "text" /\ Truthy(text_content)
    THEN LET keep(item) == ~(item.content_type = "text"
                             /\ item.text_content = text_content)
         IN SelectSeq(h, keep)
    ELSE IF content_type = "image" /\ Truthy(image_data)
    THEN LET keep(item) == ~(item.content_type = "image"
                             /\ item.image_data = image_data)
         IN SelectSeq(h, keep)
    ELSE IF content_type = "mixed" /\ Truthy(text_content) /\ Truthy(image_data)
    THEN LET keep(item) == ~(item.content_type = "mixed"
                             /\ item.text_content = text_content
                             /\ item.image_data = image_data)
         IN SelectSeq(h, keep)
    ELSE h

\* self.history[:self.max_history] when the list is longer than max_history
Trim(h, maxh) == IF Len(h) > maxh THEN SubSeq(h, 1, maxh) ELSE h

\* the locked section of _add_to_history: dedup, insert at 0, trim
AddToHistory(h, item, maxh) ==
    Trim(<<item>> \o Dedup(h, item.content_type, item.text_content,
                           item.image_data), maxh)

\* the preview handed to on_change
Preview(content_type, text_content) ==
    IF Truthy(text_content)
    THEN SubSeq(Get(text_content), 1, Min(PreviewLen, Len(Get(text_content))))
    ELSE <<"[", content_type, "]">>

---------------------------------------------------------------------------
(* The history file *)

\* a record of the file written without the image bytes
SaveItemNoImage(item) ==
    [content_type |-> item.content_type,
     timestamp |-> isoformat(item.timestamp),
     text_content |-> item.text_content]

\* _save_history: the record written for one entry
SaveItem(item) ==
    IF Truthy(item.image_data)
    THEN [content_type |-> item.content_type,
          timestamp |-> isoformat(item.timestamp),
          text_content |-> item.text_content,
          image_data |-> b64encode(Get(item.image_data))]
    ELSE [content_type |-> item.content_type,
          timestamp |-> isoformat(item.timestamp),
          text_content |-> item.text_content]

\* _save_history: the JSON document written for a history
save_history(h) == Some([i \in 1..Len(h) |-> SaveItem(h[i])])

\* item_data.get(key)
DictGet(d, key) == IF key \in DOMAIN d THEN d[key] ELSE None

\* one iteration of the loop of _load_history
LoadItem(item_data) ==
    LET encoded == DictGet(item_data, "image_data")
        has_data == encoded # None /\ Len(encoded) > 0
        image_data == IF has_data THEN Some(b64decode(encoded)) ELSE None
        thumbnail == IF has_data /\ NSImage_initWithData(Get(image_data))
                     THEN create_thumbnail(Get(image_data)) ELSE None
    IN ClipboardItem(item_data.content_type,
                     fromisoformat(item_data.timestamp),
                     item_data.text_content, image_data, thumbnail)

\* _load_history into a store whose history is h: a missing file loads nothing
load_history(h, f) ==
    IF IsNone(f) THEN h
    ELSE h \o [i \in 1..Len(Get(f)) |-> LoadItem(Get(f)[i])]

---------------------------------------------------------------------------
(* The system pasteboard *)

\* byte strings that applications put on the pasteboard
PNG_A == <<PNG_MAGIC>>
PNG_UNREADABLE == <<0, 255, 16>>
TIFF_A == <<TIFF_MAGIC, 77, 0, 42, 8>>

Clip(string, png, tiff) == [string |-> string, png |-> png, tiff |-> tiff]

\* what a pasteboard write by any application leaves on the pasteboard
Clips ==
    { Clip(Some(<<"a">>), None, None),
      Clip(Some(<<"b", "\n">>), None, None),
      Clip(Some(<<" ">>), None, None),
      Clip(None, Some(PNG_A), None),
      Clip(Some(<<"a">>), Some(PNG_A), None),
      Clip(Some(<<"a">>), Some(PNG_UNREADABLE), None),
      Clip(None, None, Some(TIFF_A)) }

\* another application writes the pasteboard: changeCount goes up by one
PasteboardChange(clip) ==
    /\ pasteboard.changeCount < MaxChanges
    /\ pasteboard' = [changeCount |-> pasteboard.changeCount + 1, clip |-> clip]
    /\ UNCHANGED <<history, max_history, last_change_count, running, file, now,
                   current_count, last, old_history>>
    /\ UNCHANGED nonStoreVars

---------------------------------------------------------------------------
(* ClipboardMonitor *)

\* a call of the monitor as its caller sees it: the operation, the index
\* argument of delete_item, the item handed to _add_to_history, the value
\* returned, the number of _save_history calls and the on_change calls made
Call(op, index, added, ret, saves, on_change) ==
    [op |-> op, index |-> index, added |-> added, ret |-> ret,
     saves |-> saves, on_change |-> on_change]

\* the image part of _check_clipboard: [image, image_data] read from the
\* pasteboard; converted says whether image_to_png_data succeeds
ReadImage(clip, converted) ==
    IF clip.png # None
    THEN IF Truthy(clip.png)
         THEN [image |-> NSImage_initWithData(Get(clip.png)),
               image_data |-> clip.png]
         ELSE [image |-> FALSE, image_data |-> None]
    ELSE IF clip.tiff # None /\ Truthy(clip.tiff)
    THEN IF NSImage_initWithData(Get(clip.tiff))
         THEN [image |-> TRUE,
               image_data |-> IF converted
                              THEN Some(image_to_png_data(Get(clip.tiff)))
                              ELSE None]
         ELSE [image |-> FALSE, image_data |-> None]
    ELSE [image |-> FALSE, image_data |-> None]

\* the content type _check_clipboard gives the pasteboard contents; None when
\* nothing is recognised
Classify(has_text, has_image) ==
    IF has_text /\ has_image THEN Some("mixed")
    ELSE IF has_image THEN Some("image")
    ELSE IF has_text THEN Some("text")
    ELSE None

\* _check_clipboard that forgets to record the change count it has seen
check_clipboard_forgetful ==
    /\ running
    /\ current_count' = pasteboard.changeCount
    /\ old_history' = history
    /\ IF pasteboard.changeCount = last_change_count
       THEN /\ last' = Call("_check_clipboard", None, None, None, 0, <<>>)
            /\ UNCHANGED <<history, file, now, last_change_count>>
       ELSE \E converted \in BOOLEAN :
            LET clip == pasteboard.clip
                text_content == clip.string
                has_text == Truthy(text_content) /\ strip(Get(text_content)) # <<>>
                img == ReadImage(clip, converted)
                has_image == img.image /\ img.image_data # None
                content_type == Classify(has_text, has_image)
                item == ClipboardItem(Get(content_type), datetime_now(now),
                                      IF has_text THEN text_content ELSE None,
                                      img.image_data,
                                      IF has_image
                                      THEN create_thumbnail(Get(img.image_data))
                                      ELSE None)
            IN /\ UNCHANGED last_change_count
               /\ IF content_type = None
                  THEN /\ last' = Call("_check_clipboard", None, None, None, 0, <<>>)
                       /\ UNCHANGED <<history, file, now>>
                  ELSE /\ now' = now + 1
                       /\ history' = AddToHistory(history, item, max_history)
                       /\ file' = save_history(history')
                       /\ last' = Call("_check_clipboard", None, Some(item), None, 1,
                                       <<Preview(item.content_type,
                                                 item.text_content)>>)
    /\ UNCHANGED <<max_history, running, pasteboard>>
    /\ UNCHANGED nonStoreVars

\* one iteration of _poll_loop: _check_clipboard, with the _add_to_history,
\* _save_history and on_change it runs when the pasteboard holds content
check_clipboard ==
    /\ running
    /\ current_count' = pasteboard.changeCount
    /\ old_history' = history
    /\ IF pasteboard.changeCount = last_change_count
       THEN /\ last' = Call("_check_clipboard", None, None, None, 0, <<>>)
            /\ UNCHANGED <<history, file, now, last_change_count>>
       ELSE \E converted \in BOOLEAN :
            LET clip == pasteboard.clip
                text_content == clip.string
                has_text == Truthy(text_content) /\ strip(Get(text_content)) # <<>>
                img == ReadImage(clip, converted)
                has_image == img.image /\ img.image_data # None
                content_type == Classify(has_text, has_image)
                item == ClipboardItem(Get(content_type), datetime_now(now),
                                      IF has_text THEN text_content ELSE None,
                                      img.image_data,
                                      IF has_image
                                      THEN create_thumbnail(Get(img.image_data))
                                      ELSE None)
            IN /\ last_change_count' = pasteboard.changeCount
               /\ IF content_type = None
                  THEN /\ last' = Call("_check_clipboard", None, None, None, 0, <<>>)
                       /\ UNCHANGED <<history, file, now>>
                  ELSE /\ now' = now + 1
                       /\ history' = AddToHistory(history, item, max_history)
                       /\ file' = save_history(history')
                       /\ last' = Call("_check_clipboard", None, Some(item), None, 1,
                                       <<Preview(item.content_type,
                                                 item.text_content)>>)
    /\ UNCHANGED <<max_history, running, pasteboard>>
    /\ UNCHANGED nonStoreVars

\* the indices delete_item is called with: those of the list, and the nearest
\* index on either side of it
DeleteIndices(h) == (0 - 1)..Len(h)

\* delete_item whose bounds check lets a negative index through
delete_item_negative(index) ==
    /\ running
    /\ old_history' = history
    /\ IF index < Len(history) /\ Len(history) > 0
       THEN /\ history' = RemoveAt(history, IF index < 0 THEN Len(history) + index
                                            ELSE index)
            /\ file' = save_history(history')
            /\ last' = Call("delete_item", Some(index), None, Some(TRUE), 1, <<>>)
       ELSE /\ last' = Call("delete_item", Some(index), None, Some(FALSE), 0, <<>>)
            /\ UNCHANGED <<history, file>>
    /\ UNCHANGED <<max_history, last_change_count, running, pasteboard, now,
                   current_count>>
    /\ UNCHANGED nonStoreVars

\* delete_item that removes the entry after the one asked for
delete_item_next(index) ==
    /\ running
    /\ old_history' = history
    /\ IF 0 <= index /\ index < Len(history)
       THEN /\ history' = RemoveAt(history, Min(index + 1, Len(history) - 1))
            /\ file' = save_history(history')
            /\ last' = Call("delete_item", Some(index), None, Some(TRUE), 1, <<>>)
       ELSE /\ last' = Call("delete_item", Some(index), None, Some(FALSE), 0, <<>>)
            /\ UNCHANGED <<history, file>>
    /\ UNCHANGED <<max_history, last_change_count, running, pasteboard, now,
                   current_count>>
    /\ UNCHANGED nonStoreVars

delete_item(index) ==
    /\ running
    /\ old_history' = history
    /\ IF 0 <= index /\ index < Len(history)
       THEN /\ history' = RemoveAt(history, index)
            /\ file' = save_history(history')
            /\ last' = Call("delete_item", Some(index), None, Some(TRUE), 1, <<>>)
       ELSE /\ last' = Call("delete_item", Some(index), None, Some(FALSE), 0, <<>>)
            /\ UNCHANGED <<history, file>>
    /\ UNCHANGED <<max_history, last_change_count, running, pasteboard, now,
                   current_count>>
    /\ UNCHANGED nonStoreVars

clear_history ==
    /\ running
    /\ old_history' = history
    /\ history' = <<>>
    /\ file' = save_history(history')
    /\ last' = Call("clear_history", None, None, None, 1, <<>>)
    /\ UNCHANGED <<max_history, last_change_count, running, pasteboard, now,
                   current_count>>
    /\ UNCHANGED nonStoreVars

\* the values of max_history monitors are constructed with
MaxHistories == {MaxCap - 1, MaxCap}

NoCount == 0 - 1

\* the next launch of the application, after the previous process has ended:
\* ClipboardMonitor.__init__ (with its _load_history) and then start()
applicationDidFinishLaunching(max) ==
    /\ ~running
    /\ old_history' = history
    /\ history' = load_history(<<>>, file)
    /\ max_history' = max
    /\ last_change_count' = pasteboard.changeCount
    /\ current_count' = NoCount
    /\ running' = TRUE
    /\ last' = Call("__init__", None, None, None, 0, <<>>)
    /\ UNCHANGED <<file, pasteboard, now>>
    /\ UNCHANGED nonStoreVars

\* the application terminates: ClipboardMonitor.stop(), which saves the history
applicationWillTerminate ==
    /\ running
    /\ old_history' = history
    /\ running' = FALSE
    /\ file' = save_history(history)
    /\ last' = Call("stop", None, None, None, 1, <<>>)
    /\ UNCHANGED <<history, max_history, last_change_count, pasteboard, now,
                   current_count>>
    /\ UNCHANGED nonStoreVars

---------------------------------------------------------------------------
(* HotkeyHandler *)

Modifiers == {"command", "alternate", "control", "shift"}
KEY_A == 0
KEY_SPACE == 49

\* the events the tap delivers to the callback
Events == [type : {"kCGEventKeyDown", "kCGEventTapDisabledByTimeout"},
           key_code : {KEY_V, KEY_C, KEY_A, KEY_SPACE},
           flags : SUBSET Modifiers]

Result(on_trigger_calls, raised, returned) ==
    [on_trigger_calls |-> on_trigger_calls, raised |-> raised,
     returned |-> returned]

\* _event_callback that tests one modifier only
event_callback_one_modifier(event, on_trigger) ==
    /\ ~terminated
    /\ hk_event' = Some(event)
    /\ IF event.type = "kCGEventKeyDown"
       THEN IF event.key_code = KEY_C /\ "control" \in event.flags
            THEN /\ terminated' = TRUE
                 /\ hk_result' = Result(0, FALSE, None)
            ELSE IF event.key_code = KEY_V /\ "command" \in event.flags
            THEN /\ hk_result' = IF on_trigger = "raises"
                                 THEN Result(1, TRUE, Some(event))
                                 ELSE Result(1, FALSE, None)
                 /\ UNCHANGED terminated
            ELSE /\ hk_result' = Result(0, FALSE, Some(event))
                 /\ UNCHANGED terminated
       ELSE /\ hk_result' = Result(0, FALSE, Some(event))
            /\ UNCHANGED terminated
    /\ UNCHANGED nonHotkeyVars

\* _event_callback(proxy, event_type, event, refcon); on_trigger says whether
\* the registered callback returns or raises
event_callback(event, on_trigger) ==
    /\ ~terminated
    /\ hk_event' = Some(event)
    /\ IF event.type = "kCGEventKeyDown"
       THEN IF event.key_code = KEY_C /\ "control" \in event.flags
            THEN /\ terminated' = TRUE
                 /\ hk_result' = Result(0, FALSE, None)
            ELSE IF event.key_code = KEY_V /\ "command" \in event.flags
                    /\ "alternate" \in event.flags
            THEN /\ hk_result' = IF on_trigger = "raises"
                                 THEN Result(1, TRUE, Some(event))
                                 ELSE Result(1, FALSE, None)
                 /\ UNCHANGED terminated
            ELSE /\ hk_result' = Result(0, FALSE, Some(event))
                 /\ UNCHANGED terminated
       ELSE /\ hk_result' = Result(0, FALSE, Some(event))
            /\ UNCHANGED terminated
    /\ UNCHANGED nonHotkeyVars

---------------------------------------------------------------------------
(* The position engine (popup_window.py, accessibility.py) *)

\* gap between the element and the popup
gap == 6

\* accessibility.ElementRect: top-left origin, y grows downward
ElementRect(x, y, width, height) ==
    [x |-> x, y |-> y, width |-> width, height |-> height]

\* ElementRect.center_x; the widths of the model are even
center_x(element_rect) == element_rect.x + element_rect.width \div 2

\* an NSRect and an NSScreen: bottom-left origin, y grows upward
NSMakeRect(x, y, w, h) ==
    [origin |-> [x |-> x, y |-> y], size |-> [width |-> w, height |-> h]]
NSScreen(frame, visibleFrame) == [frame |-> frame, visibleFrame |-> visibleFrame]

\* the containment test of the screen loop
ContainsElement(screen, elem_center_x, elem_bottom_cocoa) ==
    LET frame == screen.visibleFrame
    IN /\ frame.origin.x <= elem_center_x
       /\ elem_center_x <= frame.origin.x + frame.size.width
       /\ frame.origin.y <= elem_bottom_cocoa
       /\ elem_bottom_cocoa <= frame.origin.y + frame.size.height

\* the screen loop: the first screen whose visible frame holds the element's
\* bottom centre, the primary screen when there is none
TargetScreen(element_rect, screens) ==
    LET primary_height == screens[1].frame.size.height
        elem_bottom_cocoa == primary_height - (element_rect.y + element_rect.height)
        hits == {i \in 1..Len(screens) :
                    ContainsElement(screens[i], center_x(element_rect),
                                    elem_bottom_cocoa)}
    IN IF hits = {} THEN screens[1]
       ELSE screens[CHOOSE i \in hits : \A j \in hits : i <= j]

\* the candidate without its gap
y_below_no_gap(elem_bottom_cocoa, popup_height) ==
    elem_bottom_cocoa - popup_height

y_below(elem_bottom_cocoa, popup_height) ==
    (elem_bottom_cocoa - gap) - popup_height

y_above(elem_top_cocoa) == elem_top_cocoa + gap

\* the returned tuple (x, y, show_above)
Position(x, y, show_above) == [x |-> x, y |-> y, show_above |-> show_above]


\* the engine with the tie between the two sides given to the side above
calculate_popup_position_ties_above(element_rect, popup_height, screens) ==
    IF screens = <<>> THEN Position(100, 100, FALSE)
    ELSE
    LET primary_height == screens[1].frame.size.height
        elem_top_cocoa == primary_height - element_rect.y
        elem_bottom_cocoa == primary_height - (element_rect.y + element_rect.height)
        elem_center_x == center_x(element_rect)
        screen_frame == TargetScreen(element_rect, screens).visibleFrame
        screen_min_y == screen_frame.origin.y
        screen_max_y == screen_frame.origin.y + screen_frame.size.height
        below == y_below(elem_bottom_cocoa, popup_height)
        above == y_above(elem_top_cocoa)
        fits_below == below >= screen_min_y
        fits_above == (above + popup_height) <= screen_max_y
        space_below == elem_bottom_cocoa - screen_min_y
        space_above == screen_max_y - elem_top_cocoa
    IN IF fits_below THEN Position(elem_center_x, below, FALSE)
       ELSE IF fits_above THEN Position(elem_center_x, above, TRUE)
       ELSE IF space_above >= space_below
            THEN Position(elem_center_x,
                          IF above + popup_height > screen_max_y
                          THEN screen_max_y - popup_height ELSE above,
                          TRUE)
            ELSE Position(elem_center_x,
                          IF below < screen_min_y THEN screen_min_y ELSE below,
                          FALSE)

calculate_popup_position(element_rect, popup_height, screens) ==
    IF screens = <<>> THEN Position(100, 100, FALSE)
    ELSE
    LET primary_height == screens[1].frame.size.height
        elem_top_cocoa == primary_height - element_rect.y
        elem_bottom_cocoa == primary_height - (element_rect.y + element_rect.height)
        elem_center_x == center_x(element_rect)
        screen_frame == TargetScreen(element_rect, screens).visibleFrame
        screen_min_y == screen_frame.origin.y
        screen_max_y == screen_frame.origin.y + screen_frame.size.height
        below == y_below(elem_bottom_cocoa, popup_height)
        above == y_above(elem_top_cocoa)
        fits_below == below >= screen_min_y
        fits_above == (above + popup_height) <= screen_max_y
        space_below == elem_bottom_cocoa - screen_min_y
        space_above == screen_max_y - elem_top_cocoa
    IN IF fits_below THEN Position(elem_center_x, below, FALSE)
       ELSE IF fits_above THEN Position(elem_center_x, above, TRUE)
       ELSE IF space_above > space_below
            THEN Position(elem_center_x,
                          IF above + popup_height > screen_max_y
                          THEN screen_max_y - popup_height ELSE above,
                          TRUE)
            ELSE Position(elem_center_x,
                          IF below < screen_min_y THEN screen_min_y ELSE below,
                          FALSE)

\* screen arrangements: none; one bare screen; one screen with menu bar and
\* Dock; the same with a larger display to its right
Bare == NSScreen(NSMakeRect(0, 0, 1600, 1000), NSMakeRect(0, 0, 1600, 1000))
Docked == NSScreen(NSMakeRect(0, 0, 1600, 1000), NSMakeRect(0, 70, 1600, 905))
External ==
    NSScreen(NSMakeRect(1600, 0 - 200, 1920, 1200), NSMakeRect(1600, 0 - 200, 1920, 1175))
ScreenLayouts == {<<>>, <<Bare>>, <<Docked>>, <<Docked, External>>}

\* focused elements: on a screen, under the menu bar, under the Dock, beyond
\* the screen edges, and tall ones in the middle of a screen that leave room
\* for the popup on neither side
ElementRects ==
    {ElementRect(x, y, 200, height) :
        x \in {100, 1700}, y \in {0 - 40, 4, 100, 300, 350, 400, 950, 990},
        height \in {20, 300}}

\* popup heights up to POPUP_MAX_HEIGHT
PopupHeights == {200, 300, 400}

\* showPopupFromHotkey asks for the position of the popup
PositionPopup(element_rect, popup_height, screens) ==
    /\ pos_args' = Some([element_rect |-> element_rect,
                         popup_height |-> popup_height, screens |-> screens])
    /\ pos_result' = Some(calculate_popup_position(element_rect, popup_height,
                                                   screens))
    /\ UNCHANGED nonPositionVars

---------------------------------------------------------------------------
(* The history list as an object: who holds which list *)

\* identities of list objects; an identity nobody holds is free and empty
ListIds == {1, 2, 3}

\* the list objects still referenced
Live(hist, snap) == {hist} \cup {snap[i] : i \in 1..Len(snap)}

\* reference counting frees the lists nobody holds
Collect(h, live) == [i \in ListIds |-> IF i \in live THEN h[i] ELSE <<>>]

\* the identity of a newly created list
NewList(live) == CHOOSE i \in ListIds \ live : \A j \in ListIds \ live : i <= j

\* the arguments _check_clipboard hands to _add_to_history
AddArgs ==
    { [content_type |-> "text", text_content |-> Some(<<"a">>),
       image_data |-> None, thumbnail |-> None],
      [content_type |-> "image", text_content |-> None,
       image_data |-> Some(PNG_A), thumbnail |-> create_thumbnail(PNG_A)],
      [content_type |-> "mixed", text_content |-> Some(<<"a">>),
       image_data |-> Some(PNG_A), thumbnail |-> create_thumbnail(PNG_A)] }

\* one of the three comprehensions of _add_to_history runs and rebinds
\* self.history to a new list
DedupRebinds(content_type, text_content, image_data) ==
    \/ content_type = "text" /\ Truthy(text_content)
    \/ content_type = "image" /\ Truthy(image_data)
    \/ content_type = "mixed" /\ Truthy(text_content) /\ Truthy(image_data)

\* get_history that hands out the list of the monitor itself
get_history_live ==
    /\ snapshot_ref' = Some(history_ref)
    /\ snapshot_copy' = heap[history_ref]
    /\ snapshot_later' = {}
    /\ heap' = Collect(heap, {history_ref})
    /\ UNCHANGED <<history_ref, heap_clock>>
    /\ UNCHANGED nonSnapshotVars

\* get_history: list(self.history) under the lock, a new list object
get_history ==
    LET id == NewList({history_ref})
    IN /\ snapshot_ref' = Some(id)
       /\ snapshot_copy' = heap[history_ref]
       /\ snapshot_later' = {}
       /\ heap' = [Collect(heap, {history_ref}) EXCEPT ![id] = heap[history_ref]]
       /\ UNCHANGED <<history_ref, heap_clock>>
       /\ UNCHANGED nonSnapshotVars

\* the locked section of _add_to_history, statement by statement: the
\* comprehension and the slice bind new lists, insert(0, item) changes the list
\* that is bound at that point
add_to_history(args) ==
    /\ heap_clock < MaxAdds
    /\ LET item == ClipboardItem(args.content_type, datetime_now(heap_clock),
                                 args.text_content, args.image_data,
                                 args.thumbnail)
           rebinds == DedupRebinds(args.content_type, args.text_content,
                                   args.image_data)
           live0 == Live(history_ref, snapshot_ref)
           ref1 == IF rebinds THEN NewList(live0) ELSE history_ref
           heap1 == IF rebinds
                    THEN [heap EXCEPT ![ref1] =
                              Dedup(heap[history_ref], args.content_type,
                                    args.text_content, args.image_data)]
                    ELSE heap
           heap2 == [heap1 EXCEPT ![ref1] = <<item>> \o heap1[ref1]]
           trims == Len(heap2[ref1]) > max_history
           live2 == Live(ref1, snapshot_ref)
           ref3 == IF trims THEN NewList(live2) ELSE ref1
           heap3 == IF trims
                    THEN [heap2 EXCEPT ![ref3] = SubSeq(heap2[ref1], 1, max_history)]
                    ELSE heap2
       IN /\ history_ref' = ref3
          /\ heap' = Collect(heap3, Live(ref3, snapshot_ref))
    /\ heap_clock' = heap_clock + 1
    /\ snapshot_later' = snapshot_later \cup {"_add_to_history"}
    /\ UNCHANGED <<snapshot_ref, snapshot_copy>>
    /\ UNCHANGED nonSnapshotVars

\* the locked section of delete_item: self.history.pop(index) changes the
\* bound list in place
delete_item_in_place(index) ==
    /\ IF 0 <= index /\ index < Len(heap[history_ref])
       THEN heap' = [heap EXCEPT ![history_ref] = RemoveAt(@, index)]
       ELSE UNCHANGED heap
    /\ snapshot_later' = snapshot_later \cup {"delete_item"}
    /\ UNCHANGED <<history_ref, snapshot_ref, snapshot_copy, heap_clock>>
    /\ UNCHANGED nonSnapshotVars

\* the locked section of clear_history: self.history.clear() changes the bound
\* list in place
clear_history_in_place ==
    /\ heap' = [heap EXCEPT ![history_ref] = <<>>]
    /\ snapshot_later' = snapshot_later \cup {"clear_history"}
    /\ UNCHANGED <<history_ref, snapshot_ref, snapshot_copy, heap_clock>>
    /\ UNCHANGED nonSnapshotVars

---------------------------------------------------------------------------
(* ClipboardPopup (popup_window.py) *)

\* an observable effect of the popup; confirm numbers the confirm_selection
\* call it belongs to, data is what a pasteboard write left on the pasteboard
Effect(confirm, effect, data) ==
    [confirm |-> confirm, effect |-> effect, data |-> data]

\* NSTimer objects scheduled on the main run loop
Timer(callback, confirm, original_element, original_app) ==
    [callback |-> callback, confirm |-> confirm,
     original_element |-> original_element, original_app |-> original_app]

\* the panel as ClipboardPopup.create leaves it; ordered_in is
\* NSWindow.isVisible()
CreatedPopup ==
    [is_visible |-> FALSE, ordered_in |-> FALSE, items |-> <<>>,
     selected_index |-> 0, original_focused_element |-> None,
     original_frontmost_app |-> None, timers |-> {}, effects |-> <<>>,
     confirms |-> 0]

\* a confirm that writes the string type whatever the entry is
PasteboardWrite_string_only(item) ==
    Clip(IF Truthy(item.text_content) THEN item.text_content ELSE Some(<<>>),
         None, None)

\* the pasteboard after clearContents and the writes of confirm_selection
PasteboardWrite(item) ==
    IF item.content_type = "image" /\ Truthy(item.image_data)
    THEN Clip(None, item.image_data, None)
    ELSE IF item.content_type = "mixed" /\ Truthy(item.image_data)
            /\ Truthy(item.text_content)
    THEN Clip(item.text_content, item.image_data, None)
    ELSE Clip(IF Truthy(item.text_content) THEN item.text_content ELSE Some(<<>>),
              None, None)

\* _animate_hide; the hide is recorded when a confirm_selection caused it
animate_hide(p, confirm) ==
    IF ~p.is_visible THEN p
    ELSE [p EXCEPT !.is_visible = FALSE,
                   !.timers = @ \cup {Timer("step_animation", 0, None, None)},
                   !.effects = IF confirm > 0
                               THEN Append(@, Effect(confirm, "hide", None))
                               ELSE @]

\* _refocus_original_element
refocus_original_element(p) ==
    IF IsNone(p.original_focused_element) THEN p
    ELSE [p EXCEPT !.original_focused_element = None]

\* hide(refocus)
hide(p, refocus, confirm) ==
    IF refocus THEN refocus_original_element(animate_hide(p, confirm))
    ELSE animate_hide(p, confirm)

\* a move_selection that wraps around at both ends
move_selection_wraps(p, delta) ==
    IF p.items = <<>> THEN p
    ELSE [p EXCEPT !.selected_index = (@ + delta + Len(p.items)) % Len(p.items)]

\* move_selection(delta)
move_selection(p, delta) ==
    IF p.items = <<>> THEN p
    ELSE LET upper == Len(p.items) - 1
             moved == p.selected_index + delta
         IN [p EXCEPT !.selected_index =
                 IF moved > upper THEN (IF upper < 0 THEN 0 ELSE upper)
                 ELSE IF moved < 0 THEN 0 ELSE moved]

\* confirm_selection that notifies on_select before it hides the popup
confirm_selection_notifies_first(p) ==
    IF p.items = <<>> \/ p.selected_index >= Len(p.items) THEN p
    ELSE LET confirm == p.confirms + 1
             item == p.items[p.selected_index + 1]
             written == [p EXCEPT !.confirms = confirm,
                                  !.effects = Append(@,
                                      Effect(confirm, "pasteboard_write",
                                             Some(PasteboardWrite(item))))]
             notified == [written EXCEPT !.effects =
                             Append(@, Effect(confirm, "on_select", None))]
             hidden == hide(notified, FALSE, confirm)
         IN [hidden EXCEPT
                !.original_focused_element = None,
                !.original_frontmost_app = None,
                !.timers = @ \cup {Timer("do_refocus_and_paste", confirm,
                                         hidden.original_focused_element,
                                         hidden.original_frontmost_app)}]

\* confirm_selection
confirm_selection(p) ==
    IF p.items = <<>> \/ p.selected_index >= Len(p.items) THEN p
    ELSE LET confirm == p.confirms + 1
             item == p.items[p.selected_index + 1]
             written == [p EXCEPT !.confirms = confirm,
                                  !.effects = Append(@,
                                      Effect(confirm, "pasteboard_write",
                                             Some(PasteboardWrite(item))))]
             hidden == hide(written, FALSE, confirm)
             notified == [hidden EXCEPT !.effects =
                             Append(@, Effect(confirm, "on_select", None))]
         IN [notified EXCEPT
                !.original_focused_element = None,
                !.original_frontmost_app = None,
                !.timers = @ \cup {Timer("do_refocus_and_paste", confirm,
                                         notified.original_focused_element,
                                         notified.original_frontmost_app)}]

\* the first timer of confirm_selection fires: activate the application,
\* refocus the element, schedule the paste
do_refocus_and_paste(p, timer) ==
    LET activated == IF IsNone(timer.original_app) THEN p.effects
                     ELSE Append(p.effects,
                                 Effect(timer.confirm, "activateWithOptions_", None))
        refocused == IF IsNone(timer.original_element) THEN activated
                     ELSE Append(activated, Effect(timer.confirm, "AXFocus", None))
    IN [p EXCEPT !.effects = refocused,
                 !.timers = (@ \ {timer})
                            \cup {Timer("do_paste", timer.confirm, None, None)}]

\* the second timer fires: _simulate_paste posts Cmd+V down, then up
do_paste(p, timer) ==
    [p EXCEPT !.effects = @ \o <<Effect(timer.confirm, "key_down", None),
                                 Effect(timer.confirm, "key_up", None)>>,
              !.timers = @ \ {timer}]

\* the last step of the hide animation: orderOut_
step_animation(p, timer) ==
    [p EXCEPT !.ordered_in = FALSE, !.timers = @ \ {timer}]

\* what get_history hands to the popup
TextItem == ClipboardItem("text", datetime_now(0), Some(<<"a">>), None, None)
ImageItem ==
    ClipboardItem("image", datetime_now(1), None, Some(PNG_A), create_thumbnail(PNG_A))
MixedItem ==
    ClipboardItem("mixed", datetime_now(2), Some(<<"b">>), Some(PNG_A),
                  create_thumbnail(PNG_A))
PopupHistories == {<<>>, <<TextItem>>, <<ImageItem, TextItem>>}
\* histories with an entry of each content type
MixedHistories == {<<>>, <<MixedItem>>, <<ImageItem, TextItem>>}

\* what the accessibility API and the workspace report at popup-open time
FocusedElements == {None, Some("AXTextField")}
FrontmostApps == {None, Some("TextEdit")}

\* a showPopupFromHotkey without the check of the history
showPopupFromHotkey_unchecked(hist, element, app) ==
    /\ popup' =
         IF popup.ordered_in THEN hide(popup, TRUE, 0)
         ELSE [popup EXCEPT
                  !.original_focused_element = element,
                  !.original_frontmost_app = app,
                  !.items = SubSeq(hist, 1, Min(PopupItemCap, Len(hist))),
                  !.selected_index = 0,
                  !.is_visible = TRUE,
                  !.ordered_in = TRUE]
    /\ UNCHANGED nonPopupVars

\* showPopupFromHotkey: toggle, or capture the focus and show
showPopupFromHotkey(hist, element, app) ==
    /\ popup' =
         IF popup.ordered_in THEN hide(popup, TRUE, 0)
         ELSE IF hist = <<>> THEN popup
         ELSE [popup EXCEPT
                  !.original_focused_element = element,
                  !.original_frontmost_app = app,
                  !.items = SubSeq(hist, 1, Min(PopupItemCap, Len(hist))),
                  !.selected_index = 0,
                  !.is_visible = TRUE,
                  !.ordered_in = TRUE]
    /\ UNCHANGED nonPopupVars

\* keyDown_: arrows, Return, Escape, reaching the panel while it is on screen
keyDown(key_code) ==
    /\ popup.ordered_in
    /\ key_code = 36 => popup.confirms < MaxConfirms
    /\ popup' = IF key_code = 126 THEN move_selection(popup, 0 - 1)
                ELSE IF key_code = 125 THEN move_selection(popup, 1)
                ELSE IF key_code = 36 THEN confirm_selection(popup)
                ELSE IF key_code = 53 THEN hide(popup, TRUE, 0)
                ELSE popup
    /\ UNCHANGED nonPopupVars

\* _on_item_clicked(index): select the item and confirm
on_item_clicked(index) ==
    /\ popup.ordered_in
    /\ popup.confirms < MaxConfirms
    /\ index < Len(popup.items)
    /\ popup' = confirm_selection([popup EXCEPT !.selected_index = index])
    /\ UNCHANGED nonPopupVars

\* _on_item_hovered(index) from the item view under the mouse
on_item_hovered(index) ==
    /\ popup.ordered_in
    /\ index < Len(popup.items)
    /\ popup' = [popup EXCEPT !.selected_index = index]
    /\ UNCHANGED nonPopupVars

\* handle_click of the click-outside monitor, installed while the popup shows
handle_click ==
    /\ popup.is_visible
    /\ popup' = animate_hide(popup, 0)
    /\ UNCHANGED nonPopupVars

\* resignKeyWindow
resignKeyWindow ==
    /\ popup.ordered_in
    /\ popup' = IF popup.is_visible THEN animate_hide(popup, 0) ELSE popup
    /\ UNCHANGED nonPopupVars

\* a scheduled timer fires on the main run loop
TimerFires(timer) ==
    /\ timer \in popup.timers
    /\ popup' = IF timer.callback = "do_refocus_and_paste"
                THEN do_refocus_and_paste(popup, timer)
                ELSE IF timer.callback = "do_paste" THEN do_paste(popup, timer)
                ELSE step_animation(popup, timer)
    /\ UNCHANGED nonPopupVars

\* a call on the popup as an observer sees it: the operation, its argument
\* (key code, index, or length of the history), what the popup was when it
\* began, whether it changed anything of the popup, and where
\* showPopupFromHotkey placed the popup
PopupCall(op, arg, before, after, placement) ==
    [op |-> op, arg |-> arg, was_visible |-> before.is_visible,
     was_ordered_in |-> before.ordered_in,
     was_selected |-> before.selected_index, changed |-> after # before,
     placement |-> placement]

\* the call A of the popup, observed
Observed(A, op, arg) == A /\ popup_call' = PopupCall(op, arg, popup, popup', None)

\* the placement part of showPopupFromHotkey: the position engine when the
\* focused element has a rectangle, the middle of NSScreen.mainScreen() when
\* it has none
place_popup(element_rect, popup_height, main_screen, screens) ==
    IF element_rect # None
    THEN [position |-> calculate_popup_position(Get(element_rect), popup_height,
                                                screens),
          engine |-> TRUE]
    ELSE [position |->
              IF main_screen # None
              THEN Position(Get(main_screen).frame.size.width \div 2,
                            Get(main_screen).frame.size.height \div 2, FALSE)
              ELSE Position(500, 400, FALSE),
          engine |-> FALSE]

\* what get_focused_element_rect and NSScreen report at popup-open time: no
\* rectangle with no screen, one screen, or two screens either of which holds
\* the key window; a rectangle on a single screen
PlacementCases ==
    {[element_rect |-> None, popup_height |-> 400, main_screen |-> None,
      screens |-> <<>>],
     [element_rect |-> None, popup_height |-> 400, main_screen |-> Some(Docked),
      screens |-> <<Docked>>],
     [element_rect |-> None, popup_height |-> 400, main_screen |-> Some(Docked),
      screens |-> <<Docked, External>>],
     [element_rect |-> None, popup_height |-> 400, main_screen |-> Some(External),
      screens |-> <<Docked, External>>]}
    \cup {[element_rect |-> Some(ElementRect(100, 400, 200, 20)),
           popup_height |-> h, main_screen |-> Some(Docked),
           screens |-> <<Docked>>] : h \in {200, 400}}

\* showPopupFromHotkey with its placement
showPopupFromHotkey_placed(hist, element, app, case) ==
    /\ showPopupFromHotkey(hist, element, app)
    /\ popup_call' =
         PopupCall("showPopupFromHotkey", Len(hist), popup, popup',
                   IF popup.ordered_in \/ hist = <<>> THEN None
                   ELSE Some([case |-> case,
                              placed |-> place_popup(case.element_rect,
                                                     case.popup_height,
                                                     case.main_screen,
                                                     case.screens)]))

\* _on_item_clicked(index) with an index no item view has: the index is
\* stored, then _item_views[index] raises IndexError
on_item_clicked_beyond(index) ==
    /\ popup.ordered_in
    /\ index >= Len(popup.items)
    /\ popup' = [popup EXCEPT !.selected_index = index]
    /\ UNCHANGED nonPopupVars

\* confirm_selection() called directly, as the key monitor of main.py does
confirm_selection_call ==
    /\ popup.confirms < MaxConfirms
    /\ popup' = confirm_selection(popup)
    /\ UNCHANGED nonPopupVars

---------------------------------------------------------------------------
(* The listener threads and the permission recheck (hotkey_handler.py, main.py) *)

\* HotkeyHandler.__init__ followed by start(): the fields, the state of its
\* thread ("started", "loop" inside CFRunLoopRun, "ended"), and what it has
\* been seen to do
StartedHandler ==
    [running |-> TRUE, tap |-> FALSE, permission_denied |-> FALSE,
     thread |-> "started", loop_runs |-> 0, stopped |-> FALSE,
     denied_calls |-> 0, trigger_calls |-> 0, triggers_after_stop |-> 0]

\* stop() called on the thread caller: CFRunLoopStop(CFRunLoopGetCurrent()) ends
\* the loop of the calling thread, which is the listener's only when the
\* listener's own thread calls; the tap is left enabled
stop(handler, caller) ==
    [handler EXCEPT !.running = FALSE,
                    !.stopped = @ \/ handler.tap,
                    !.thread = IF handler.tap /\ caller = "hotkey" /\ @ = "loop"
                               THEN "ended" ELSE @]

\* a record of the log of UI and application actions
UiAction(action, thread) == [action |-> action, thread |-> thread]

\* the user grants or revokes the permission in System Settings
GrantPermission ==
    /\ ~terminated
    /\ ~permission
    /\ permission' = TRUE
    /\ UNCHANGED <<main_pc, has_accessibility_permission, permission_check_timer,
                   live_timers, hotkey_handler, handlers, main_queue, ui_log,
                   key_events>>
    /\ UNCHANGED nonListenerVars

RevokePermission ==
    /\ ~terminated
    /\ permission
    /\ permission' = FALSE
    /\ UNCHANGED <<main_pc, has_accessibility_permission, permission_check_timer,
                   live_timers, hotkey_handler, handlers, main_queue, ui_log,
                   key_events>>
    /\ UNCHANGED nonListenerVars

\* applicationDidFinishLaunching_ up to the start of the hotkey handler: the
\* launch-time check, then HotkeyHandler(...).start()
applicationDidFinishLaunching_ ==
    /\ main_pc = "init"
    /\ main_pc' = "launching"
    /\ has_accessibility_permission' = permission
    /\ handlers' = <<StartedHandler>>
    /\ hotkey_handler' = 1
    /\ UNCHANGED <<permission, permission_check_timer, live_timers, main_queue,
                   ui_log, key_events>>
    /\ UNCHANGED nonListenerVars

\* _start_permission_check_timer: a new repeating timer replaces the reference
start_permission_check_timer ==
    LET unused == (1..(Cardinality(live_timers) + 1)) \ live_timers
        timer == CHOOSE t \in unused : \A u \in unused : t <= u
    IN /\ live_timers' = live_timers \cup {timer}
       /\ permission_check_timer' = Some(timer)
       /\ ui_log' = ui_log \cup {UiAction("timer creation", "main")}

\* the last lines of applicationDidFinishLaunching_: the periodic check starts
\* when the launch-time check said no
applicationDidFinishLaunching_end ==
    /\ main_pc = "launching"
    /\ ~terminated
    /\ main_pc' = "idle"
    /\ IF ~has_accessibility_permission
       THEN start_permission_check_timer
       ELSE UNCHANGED <<live_timers, permission_check_timer, ui_log>>
    /\ UNCHANGED <<permission, has_accessibility_permission, hotkey_handler,
                   handlers, main_queue, key_events>>
    /\ UNCHANGED nonListenerVars

\* _run_event_tap that returns on failure without telling anyone
run_event_tap_silent(h) ==
    /\ h \in 1..Len(handlers)
    /\ ~terminated
    /\ handlers[h].thread = "started"
    /\ IF permission
       THEN handlers' = [handlers EXCEPT ![h].tap = TRUE, ![h].thread = "loop",
                                         ![h].loop_runs = @ + 1]
       ELSE handlers' = [handlers EXCEPT ![h].permission_denied = TRUE,
                                         ![h].thread = "ended"]
    /\ UNCHANGED <<permission, main_pc, has_accessibility_permission,
                   permission_check_timer, live_timers, hotkey_handler, ui_log,
                   key_events, main_queue>>
    /\ UNCHANGED nonListenerVars

\* _run_event_tap on the thread of handler h: CGEventTapCreate succeeds when
\* the permission is there, and the thread enters CFRunLoopRun; otherwise
\* on_permission_denied (_on_hotkey_permission_denied) runs on this thread and
\* the thread returns
run_event_tap(h) ==
    /\ h \in 1..Len(handlers)
    /\ ~terminated
    /\ handlers[h].thread = "started"
    /\ IF permission
       THEN /\ handlers' = [handlers EXCEPT ![h].tap = TRUE, ![h].thread = "loop",
                                            ![h].loop_runs = @ + 1]
            /\ UNCHANGED main_queue
       ELSE /\ handlers' = [handlers EXCEPT ![h].permission_denied = TRUE,
                                            ![h].denied_calls = @ + 1,
                                            ![h].thread = "ended"]
            /\ main_queue' = IF IsNone(permission_check_timer)
                             THEN Append(main_queue, "_start_permission_check_timer")
                             ELSE main_queue
    /\ UNCHANGED <<permission, main_pc, has_accessibility_permission,
                   permission_check_timer, live_timers, hotkey_handler, ui_log,
                   key_events>>
    /\ UNCHANGED nonListenerVars

\* the main run loop performs the next selector sent to it
performSelectorOnMainThread ==
    /\ main_pc = "idle"
    /\ ~terminated
    /\ main_queue # <<>>
    /\ main_queue' = Tail(main_queue)
    /\ IF Head(main_queue) = "_start_permission_check_timer"
       THEN start_permission_check_timer
       ELSE /\ ui_log' = ui_log \cup {UiAction("popup show/hide", "main")}
            /\ UNCHANGED <<live_timers, permission_check_timer>>
    /\ UNCHANGED <<permission, main_pc, has_accessibility_permission,
                   hotkey_handler, handlers, key_events>>
    /\ UNCHANGED nonListenerVars

\* checkPermissionTimer_: a scheduled permission timer fires on the main thread
checkPermissionTimer_(timer) ==
    /\ main_pc = "idle"
    /\ ~terminated
    /\ timer \in live_timers
    /\ IF permission /\ ~has_accessibility_permission
       THEN /\ has_accessibility_permission' = TRUE
            /\ live_timers' = IF IsNone(permission_check_timer) THEN live_timers
                              ELSE live_timers \ {Get(permission_check_timer)}
            /\ permission_check_timer' = None
            /\ IF hotkey_handler # 0
               THEN /\ handlers' =
                         Append([handlers EXCEPT ![hotkey_handler] = stop(@, "main")],
                                StartedHandler)
                    /\ hotkey_handler' = Len(handlers) + 1
               ELSE UNCHANGED <<handlers, hotkey_handler>>
       ELSE UNCHANGED <<has_accessibility_permission, live_timers,
                        permission_check_timer, handlers, hotkey_handler>>
    /\ UNCHANGED <<permission, main_pc, main_queue, ui_log, key_events>>
    /\ UNCHANGED nonListenerVars

\* key events of the listener part: the trigger, the quit combination, a plain key
ListenerEvents ==
    { [type |-> "kCGEventKeyDown", key_code |-> KEY_V,
       flags |-> {"command", "alternate"}],
      [type |-> "kCGEventKeyDown", key_code |-> KEY_C, flags |-> {"control"}],
      [type |-> "kCGEventKeyDown", key_code |-> KEY_A, flags |-> {}] }

\* the taps that see an event before the tap of handler h: each tap is
\* inserted at the head, so the later handlers come first
TapsAhead(h) ==
    {g \in 1..Len(handlers) : g > h /\ handlers[g].tap /\ handlers[g].thread = "loop"}

\* the tap of handler h delivers a key event: _event_callback runs on the
\* thread of the handler, with on_trigger = _on_hotkey_trigger, which sends
\* showPopupFromHotkey to the main thread; an event a tap ahead suppresses
\* does not arrive
KeyEvent(h, event) ==
    /\ h \in 1..Len(handlers)
    /\ handlers[h].tap /\ handlers[h].thread = "loop"
    /\ key_events < MaxKeys
    /\ key_events' = key_events + 1
    /\ event_callback(event, "returns")
    /\ IsNone(hk_result'.returned) => TapsAhead(h) = {}
    /\ IF hk_result'.on_trigger_calls > 0
       THEN /\ handlers' = [handlers EXCEPT
                               ![h].trigger_calls = @ + 1,
                               ![h].triggers_after_stop =
                                   IF handlers[h].stopped THEN @ + 1 ELSE @]
            /\ main_queue' = Append(main_queue, "showPopupFromHotkey")
       ELSE UNCHANGED <<handlers, main_queue>>
    /\ ui_log' = IF terminated'
                 THEN ui_log \cup {UiAction("terminate", "hotkey")}
                 ELSE ui_log
    /\ UNCHANGED <<permission, main_pc, has_accessibility_permission,
                   permission_check_timer, live_timers, hotkey_handler>>

---------------------------------------------------------------------------
(* The history file as ClipboardMonitor.__init__ may find it *)

\* a history file: absent, not JSON, or a JSON list of records
HistoryFile(exists, json, data) == [exists |-> exists, json |-> json, data |-> data]
MissingFile == HistoryFile(FALSE, FALSE, <<>>)

\* records of a file: two written by _save_history, one whose timestamp is the
\* empty string, one without content_type, one whose image_data is not base64
FileRecords ==
    { SaveItem(TextItem), SaveItem(ImageItem),
      [content_type |-> "text", timestamp |-> <<>>, text_content |-> Some(<<"a">>)],
      [timestamp |-> isoformat(datetime_now(0)), text_content |-> Some(<<"a">>)],
      [content_type |-> "image", timestamp |-> isoformat(datetime_now(0)),
       text_content |-> None, image_data |-> <<34, 16, B64Pad>>] }

\* the files of up to two records, the file that is not JSON, and no file
HistoryFiles ==
    {MissingFile, HistoryFile(TRUE, FALSE, <<>>)}
    \cup {HistoryFile(TRUE, TRUE, data) :
            data \in {<<>>} \cup {<<r>> : r \in FileRecords}
                     \cup {<<r, s>> : r, s \in FileRecords}}

\* one iteration of the loop of _load_history runs without raising:
\* b64decode accepts the image data, the keys read with [] are there, and
\* fromisoformat accepts the timestamp
Decodes(item_data) ==
    /\ Len(DictGet(item_data, "image_data")) % 4 = 0
    /\ "content_type" \in DOMAIN item_data
    /\ "timestamp" \in DOMAIN item_data
    /\ Len(item_data.timestamp) \in {1, 2}

\* _load_history on any file: each record is appended as soon as it is
\* decoded, and the first exception ends the loading
load_history_file(h, f) ==
    IF ~f.exists \/ ~f.json THEN h
    ELSE LET bad == {i \in 1..Len(f.data) : ~Decodes(f.data[i])}
             count == IF bad = {} THEN Len(f.data)
                      ELSE (CHOOSE i \in bad : \A j \in bad : i <= j) - 1
         IN h \o [i \in 1..count |-> LoadItem(f.data[i])]

\* something (an earlier version, an interrupted write, the user) leaves a
\* history file, or removes it
WriteHistoryFile(f) ==
    /\ disk # f
    /\ disk' = f
    /\ UNCHANGED constructed
    /\ UNCHANGED nonLoadVars

\* ClipboardMonitor.__init__: history = [] and _load_history(), whose
\* exceptions are all caught
ClipboardMonitor_init ==
    /\ constructed' = Some([file |-> disk,
                            history |-> load_history_file(<<>>, disk),
                            raised |-> FALSE])
    /\ UNCHANGED disk
    /\ UNCHANGED nonLoadVars

---------------------------------------------------------------------------

(* A second instance (main.py, main) *)

\* another ClipX process: "absent", "running", "killed" once forceTerminate
\* has been sent to it and it has not ended yet, "terminated"; io is what its
\* watcher does: "idle", "poll" reading the pasteboard, "write" writing the
\* history file
OtherInstance(state, io) == [state |-> state, io |-> io]

Alive(other) == other.state \in {"running", "killed"}

\* the steps of a watcher: poll, write the history file, sleep
NextIo(io) == IF io = "idle" THEN "poll" ELSE IF io = "poll" THEN "write" ELSE "idle"

\* a forceTerminate that is never sent
forceTerminate_not_sent(other) == other

\* NSRunningApplication.forceTerminate(): the request is sent and the call
\* returns; the process ends later
forceTerminate(other) ==
    IF other.state = "running" THEN [other EXCEPT !.state = "killed"] ELSE other

\* an earlier ClipX process was started
OtherStarts(i) ==
    /\ new_instance.pc = "main"
    /\ others[i].state = "absent"
    /\ others' = [others EXCEPT ![i] = OtherInstance("running", "idle")]
    /\ UNCHANGED new_instance
    /\ UNCHANGED nonInstanceVars

\* its watcher goes on as long as the process lives
OtherPolls(i) ==
    /\ Alive(others[i])
    /\ others' = [others EXCEPT ![i].io = NextIo(@)]
    /\ UNCHANGED new_instance
    /\ UNCHANGED nonInstanceVars

\* it ends: the forced termination takes effect, or the user quits it
OtherEnds(i) ==
    /\ Alive(others[i])
    /\ others' = [others EXCEPT ![i] = OtherInstance("terminated", "idle")]
    /\ UNCHANGED new_instance
    /\ UNCHANGED nonInstanceVars

\* main(): runningApplicationsWithBundleIdentifier_ without the own pid
main_check ==
    /\ new_instance.pc = "main"
    /\ LET other_instances == {i \in 1..MaxInstances : Alive(others[i])}
       IN new_instance' = [new_instance EXCEPT
                              !.found = other_instances,
                              !.pc = IF other_instances = {} THEN "run"
                                     ELSE "alert"]
    /\ UNCHANGED others
    /\ UNCHANGED nonInstanceVars

\* alert.runModal() returns 1000 (Quit New Instance: sys.exit) or 1001
\* (Terminate Other & Continue: forceTerminate each instance found)
main_alert(response) ==
    /\ new_instance.pc = "alert"
    /\ new_instance' = [new_instance EXCEPT
                           !.response = response,
                           !.pc = IF response = 1000 THEN "exited" ELSE "run"]
    /\ others' = IF response = 1001
                 THEN [i \in 1..MaxInstances |->
                          IF i \in new_instance.found
                          THEN forceTerminate(others[i]) ELSE others[i]]
                 ELSE others
    /\ UNCHANGED nonInstanceVars

\* app.run(): applicationDidFinishLaunching_ starts the clipboard watcher and
\* the hotkey listener
main_run ==
    /\ new_instance.pc = "run"
    /\ new_instance' = [new_instance EXCEPT !.pc = "running", !.watcher = TRUE]
    /\ UNCHANGED others
    /\ UNCHANGED nonInstanceVars

\* the watcher of this process
NewPolls ==
    /\ new_instance.watcher
    /\ new_instance' = [new_instance EXCEPT !.io = NextIo(@)]
    /\ UNCHANGED others
    /\ UNCHANGED nonInstanceVars

---------------------------------------------------------------------------

(* The history lock (clipboard_monitor.py) *)

\* the poll thread runs _add_to_history; the main thread runs delete_item,
\* clear_history, get_history and stop
Threads == {"poll", "main"}

\* a thread inside a method of the monitor: the method, where it is ("lock"
\* and "save_lock" in front of a `with self._lock`, "locked" and
\* "save_locked" inside it, "write" writing the file, "on_change" in the
\* callback), its argument, and the list it has built
Thread(op, pc, arg, data) == [op |-> op, pc |-> pc, arg |-> arg, data |-> data]

\* what _check_clipboard hands to _add_to_history
LockItems == <<TextItem, ImageItem>>

\* a `with self._lock` block that does not release at its end
release_never(holder, t) == holder

\* the end of a `with self._lock` block
release(holder, t) == IF holder = t THEN "free" ELSE holder

\* a thread calls a method of the monitor
CallMonitor(t, op, arg) ==
    /\ threads[t].pc = "idle"
    /\ op = "_add_to_history" <=> t = "poll"
    /\ threads' = [threads EXCEPT
                      ![t] = Thread(op, IF op = "stop" THEN "save_lock" ELSE "lock",
                                    arg, None)]
    /\ UNCHANGED <<lock, shared_history, shared_file>>
    /\ UNCHANGED nonLockVars

\* threading.Lock.acquire at the head of a `with self._lock`: the thread
\* waits until nobody holds the lock; the lock is not reentrant
Acquire(t) ==
    /\ threads[t].pc \in {"lock", "save_lock"}
    /\ lock = "free"
    /\ lock' = t
    /\ threads' = [threads EXCEPT
                      ![t].pc = IF @ = "lock" THEN "locked" ELSE "save_locked"]
    /\ UNCHANGED <<shared_history, shared_file>>
    /\ UNCHANGED nonLockVars

\* the locked block of _add_to_history, delete_item, clear_history or
\* get_history, up to its end
Locked(t) ==
    /\ threads[t].pc = "locked"
    /\ LET op == threads[t].op
           arg == threads[t].arg
           valid == 0 <= arg /\ arg < Len(shared_history)
       IN /\ shared_history' =
               IF op = "_add_to_history"
               THEN AddToHistory(shared_history, LockItems[arg], max_history)
               ELSE IF op = "delete_item" /\ valid
               THEN RemoveAt(shared_history, arg)
               ELSE IF op = "clear_history" THEN <<>>
               ELSE shared_history
          /\ threads' =
               [threads EXCEPT ![t] =
                   IF op = "get_history" \/ (op = "delete_item" /\ ~valid)
                   THEN Thread("idle", "idle", 0, None)
                   ELSE [@ EXCEPT !.pc = "save_lock"]]
    /\ lock' = release(lock, t)
    /\ UNCHANGED shared_file
    /\ UNCHANGED nonLockVars

\* the locked block of _save_history: the records are built from the history
SaveLocked(t) ==
    /\ threads[t].pc = "save_locked"
    /\ threads' = [threads EXCEPT ![t].pc = "write",
                                  ![t].data = save_history(shared_history)]
    /\ lock' = release(lock, t)
    /\ UNCHANGED <<shared_history, shared_file>>
    /\ UNCHANGED nonLockVars

\* _save_history writes the records it has built to HISTORY_FILE
WriteFile(t) ==
    /\ threads[t].pc = "write"
    /\ shared_file' = threads[t].data
    /\ threads' = [threads EXCEPT ![t] =
                      IF @.op = "_add_to_history"
                      THEN [@ EXCEPT !.pc = "on_change", !.data = None]
                      ELSE Thread("idle", "idle", 0, None)]
    /\ UNCHANGED <<lock, shared_history>>
    /\ UNCHANGED nonLockVars

\* _add_to_history calls on_change(preview) and returns
OnChange(t) ==
    /\ threads[t].pc = "on_change"
    /\ threads' = [threads EXCEPT ![t] = Thread("idle", "idle", 0, None)]
    /\ UNCHANGED <<lock, shared_history, shared_file>>
    /\ UNCHANGED nonLockVars

---------------------------------------------------------------------------

(* The poll thread and start()/stop() (clipboard_monitor.py) *)

\* threads that start() creates in one run of the model
MaxThreads == 2

\* pasteboard changes by other applications while the threads run
MaxWatchChanges == 2

\* a thread running _poll_loop: where it is ("while" at the loop test, "check"
\* at the head of _check_clipboard, "add" in front of _add_to_history with the
\* item it has made, "sleep" in time.sleep, "ended" after the loop), and
\* whether one of its iterations has raised
PollThread(pc, item, raised) == [pc |-> pc, item |-> item, raised |-> raised]

\* what other applications put on the pasteboard while the threads run
WatchClips == {Clip(Some(<<"a">>), None, None), Clip(None, Some(PNG_A), None)}

\* the item _check_clipboard makes of the pasteboard contents, None when
\* nothing is recognised
CheckedItem(clip, converted, time) ==
    LET text_content == clip.string
        has_text == Truthy(text_content) /\ strip(Get(text_content)) # <<>>
        img == ReadImage(clip, converted)
        has_image == img.image /\ img.image_data # None
        content_type == Classify(has_text, has_image)
    IN IF content_type = None THEN None
       ELSE Some(ClipboardItem(Get(content_type), datetime_now(time),
                               IF has_text THEN text_content ELSE None,
                               img.image_data,
                               IF has_image
                               THEN create_thumbnail(Get(img.image_data))
                               ELSE None))

\* a loop whose iteration is not wrapped in try/except: an exception ends it
after_iteration_uncaught(raised) == IF raised THEN "ended" ELSE "sleep"

\* the end of one iteration of the while loop: the except clause catches what
\* _check_clipboard raised, and the thread goes on to time.sleep
after_iteration(raised) == "sleep"

\* start()
monitor_start ==
    /\ stop_pc = "idle"
    /\ IF running
       THEN UNCHANGED <<running, monitor_thread, poll_threads>>
       ELSE /\ Len(poll_threads) < MaxThreads
            /\ running' = TRUE
            /\ poll_threads' = Append(poll_threads, PollThread("while", None, FALSE))
            /\ monitor_thread' = Len(poll_threads')
    /\ last' = Call("start", None, None, Some(running), 0, <<>>)
    /\ UNCHANGED <<history, max_history, last_change_count, file, pasteboard, now,
                   current_count, old_history, stop_pc>>
    /\ UNCHANGED nonWatcherStoreVars

\* stop(), up to the join
monitor_stop ==
    /\ stop_pc = "idle"
    /\ running' = FALSE
    /\ stop_pc' = IF monitor_thread # 0 THEN "join" ELSE "save"
    /\ last' = Call("stop", None, None, None, 0, <<>>)
    /\ UNCHANGED <<history, max_history, last_change_count, file, pasteboard, now,
                   current_count, old_history, monitor_thread, poll_threads>>
    /\ UNCHANGED nonWatcherStoreVars

\* self._thread.join(timeout=1.0) returns, because the thread has ended or,
\* when the thread is kept inside a poll step for longer than the timeout,
\* because the time is over; then self._thread = None
join(timed_out) ==
    /\ stop_pc = "join"
    /\ IF timed_out
       THEN poll_threads[monitor_thread].pc \in {"check", "add"}
       ELSE poll_threads[monitor_thread].pc = "ended"
    /\ monitor_thread' = 0
    /\ stop_pc' = "save"
    /\ UNCHANGED <<storeVars, poll_threads>>
    /\ UNCHANGED nonWatcherStoreVars

\* the _save_history at the end of stop(); stop() returns
stop_save ==
    /\ stop_pc = "save"
    /\ file' = save_history(history)
    /\ stop_pc' = "idle"
    /\ UNCHANGED <<history, max_history, last_change_count, running, pasteboard,
                   now, current_count, last, old_history, monitor_thread, poll_threads>>
    /\ UNCHANGED nonWatcherStoreVars

\* `while self._running`
loop_test(t) ==
    /\ poll_threads[t].pc = "while"
    /\ poll_threads' = [poll_threads EXCEPT
                           ![t].pc = IF running THEN "check" ELSE "ended"]
    /\ UNCHANGED <<storeVars, monitor_thread, stop_pc>>
    /\ UNCHANGED nonWatcherStoreVars

\* _check_clipboard up to its call of _add_to_history; reading the pasteboard
\* may raise once the change count has been recorded
check_read(t, raises) ==
    /\ poll_threads[t].pc = "check"
    /\ IF pasteboard.changeCount = last_change_count
       THEN /\ ~raises
            /\ poll_threads' = [poll_threads EXCEPT ![t].pc = after_iteration(FALSE)]
            /\ UNCHANGED <<last_change_count, now>>
       ELSE /\ last_change_count' = pasteboard.changeCount
            /\ \E converted \in BOOLEAN :
                 LET item == CheckedItem(pasteboard.clip, converted, now)
                 IN IF raises
                    THEN /\ poll_threads' =
                              [poll_threads EXCEPT
                                  ![t].pc = after_iteration(TRUE),
                                  ![t].raised = TRUE]
                         /\ UNCHANGED now
                    ELSE IF item = None
                    THEN /\ poll_threads' =
                              [poll_threads EXCEPT ![t].pc = after_iteration(FALSE)]
                         /\ UNCHANGED now
                    ELSE /\ poll_threads' =
                              [poll_threads EXCEPT ![t].pc = "add", ![t].item = item]
                         /\ now' = now + 1
    /\ UNCHANGED <<history, max_history, running, file, pasteboard, current_count,
                   last, old_history, monitor_thread, stop_pc>>
    /\ UNCHANGED nonWatcherStoreVars

\* _add_to_history with its _save_history and its on_change callback, which
\* may raise
poll_add_to_history(t, raises) ==
    /\ poll_threads[t].pc = "add"
    /\ history' = AddToHistory(history, Get(poll_threads[t].item), max_history)
    /\ file' = save_history(history')
    /\ poll_threads' = [poll_threads EXCEPT
                           ![t].pc = after_iteration(raises),
                           ![t].item = None,
                           ![t].raised = @ \/ raises]
    /\ UNCHANGED <<max_history, last_change_count, running, pasteboard, now,
                   current_count, last, old_history, monitor_thread, stop_pc>>
    /\ UNCHANGED nonWatcherStoreVars

\* time.sleep(0.3) is over
sleep(t) ==
    /\ poll_threads[t].pc = "sleep"
    /\ poll_threads' = [poll_threads EXCEPT ![t].pc = "while"]
    /\ UNCHANGED <<storeVars, monitor_thread, stop_pc>>
    /\ UNCHANGED nonWatcherStoreVars

---------------------------------------------------------------------------

(* The pasteboard write of confirm_selection, as the poll thread sees it *)

\* no confirm_selection has written the pasteboard
NoWrite == [pc |-> "idle", item |-> None, before |-> <<>>]

\* what other applications copy before the popup is used
RewriteClips ==
    { Clip(Some(<<"a">>), None, None),
      Clip(None, Some(PNG_A), None),
      Clip(Some(<<"b">>), Some(PNG_A), None) }

\* the write that follows clearContents for an entry
FirstWrite(item) ==
    IF item.content_type = "image" /\ Truthy(item.image_data) THEN "setData"
    ELSE IF item.content_type = "mixed" /\ Truthy(item.image_data)
            /\ Truthy(item.text_content)
    THEN "setData"
    ELSE "setString"

\* confirm_selection on the entry at index of the history the popup shows:
\* pasteboard.clearContents() empties the pasteboard and takes its ownership,
\* which advances changeCount
confirm_clearContents(index) ==
    /\ rewrite.pc = "idle"
    /\ pasteboard.changeCount < MaxChanges
    /\ pasteboard' = [changeCount |-> pasteboard.changeCount + 1,
                      clip |-> Clip(None, None, None)]
    /\ rewrite' = [pc |-> FirstWrite(history[index + 1]),
                   item |-> Some(history[index + 1]), before |-> history]
    /\ UNCHANGED <<history, max_history, last_change_count, running, file, now,
                   current_count, last, old_history>>
    /\ UNCHANGED nonRewriteStoreVars

\* pasteboard.setData_forType_(png_data, NSPasteboardTypePNG); whether a write
\* by the owner advances changeCount again is left to the pasteboard server
confirm_setData(bumps) ==
    /\ rewrite.pc = "setData"
    /\ pasteboard' = [changeCount |-> pasteboard.changeCount + (IF bumps THEN 1 ELSE 0),
                      clip |-> [pasteboard.clip EXCEPT
                                   !.png = Get(rewrite.item).image_data]]
    /\ rewrite' = [rewrite EXCEPT
                      !.pc = IF Get(rewrite.item).content_type = "mixed"
                             THEN "setString" ELSE "done"]
    /\ UNCHANGED <<history, max_history, last_change_count, running, file, now,
                   current_count, last, old_history>>
    /\ UNCHANGED nonRewriteStoreVars

\* pasteboard.setString_forType_(text, NSPasteboardTypeString)
confirm_setString(bumps) ==
    /\ rewrite.pc = "setString"
    /\ pasteboard' = [changeCount |-> pasteboard.changeCount + (IF bumps THEN 1 ELSE 0),
                      clip |-> [pasteboard.clip EXCEPT
                                   !.string =
                                       IF Truthy(Get(rewrite.item).text_content)
                                       THEN Get(rewrite.item).text_content
                                       ELSE Some(<<>>)]]
    /\ rewrite' = [rewrite EXCEPT !.pc = "done"]
    /\ UNCHANGED <<history, max_history, last_change_count, running, file, now,
                   current_count, last, old_history>>
    /\ UNCHANGED nonRewriteStoreVars

---------------------------------------------------------------------------

(* ClipXDelegate and its popup (main.py) *)

\* confirm_selection calls that take effect in one run of the model
MaxSessionConfirms == 2

\* deletes requested from the popup between two shows
MaxDeletes == 2

\* what has been done from the popup since showPopupFromHotkey last showed
\* it: the confirm_selection calls that took effect, the deletes requested
Session(confirms, deletes) == [confirms |-> confirms, deletes |-> deletes]

\* ClipboardPopup._is_edit_mode, which the key monitor reads
is_edit_mode == FALSE

\* keys the monitors see: the four the popup handles, and a letter key
MonitorKeys == {126, 125, 36, 53, 0}

\* the histories get_history hands to showPopupFromHotkey
DelegateHistories == {<<>>, <<TextItem>>, <<ImageItem, TextItem>>}

\* confirm_selection took effect: it wrote the pasteboard and called
\* on_select, which is _on_item_selected
took_effect(before, after) == after.confirms > before.confirms

\* showPopupFromHotkey: hide the popup when the panel is on screen; otherwise
\* show the history, if there is any, and set _popup_visible
delegate_showPopupFromHotkey(hist, element, app) ==
    /\ IF popup.ordered_in
       THEN /\ popup' = hide(popup, TRUE, 0)
            /\ UNCHANGED <<popup_visible, session>>
       ELSE IF hist = <<>>
       THEN UNCHANGED <<popup, popup_visible, session>>
       ELSE /\ popup' = [popup EXCEPT
                            !.original_focused_element = element,
                            !.original_frontmost_app = app,
                            !.items = SubSeq(hist, 1, Min(PopupItemCap, Len(hist))),
                            !.selected_index = 0,
                            !.is_visible = TRUE,
                            !.ordered_in = TRUE]
            /\ popup_visible' = TRUE
            /\ session' = Session(0, 0)
    /\ UNCHANGED <<storeVars, popup_call, nonDelegateVars>>

\* a key press while the panel is on screen: the handler of the local monitor
\* and, when the handler returns the event, keyDown_ of the panel
key_local(key_code) ==
    /\ popup.ordered_in
    /\ key_code = 36 => popup.confirms < MaxSessionConfirms
    /\ popup' =
         IF key_code = 126 THEN move_selection(popup, 0 - 1)
         ELSE IF key_code = 125 THEN move_selection(popup, 1)
         ELSE IF key_code = 36 THEN confirm_selection(popup)
         ELSE IF key_code = 53 \/ popup_visible THEN hide(popup, TRUE, 0)
         ELSE popup
    /\ popup_visible' =
         IF took_effect(popup, popup') THEN FALSE
         ELSE IF ~popup_visible THEN FALSE
         ELSE IF key_code \in {126, 125} THEN TRUE
         ELSE IF key_code = 36
         THEN ~(~is_edit_mode /\ popup.selected_index # 0)
         ELSE FALSE
    /\ session' = IF took_effect(popup, popup')
                  THEN [session EXCEPT !.confirms = @ + 1] ELSE session
    /\ UNCHANGED <<storeVars, popup_call, nonDelegateVars>>

\* a key press while another application has the keyboard: the handler of the
\* global monitor
key_global(key_code) ==
    /\ ~popup.is_visible
    /\ IF popup_visible /\ key_code \notin {126, 125, 36, 53}
       THEN /\ popup' = hide(popup, TRUE, 0)
            /\ popup_visible' = FALSE
       ELSE UNCHANGED <<popup, popup_visible>>
    /\ UNCHANGED <<storeVars, popup_call, session, nonDelegateVars>>

\* a click on the item at index: _on_item_clicked, with the _on_item_selected
\* that confirm_selection calls
item_clicked(index) ==
    /\ popup.ordered_in
    /\ popup.confirms < MaxSessionConfirms
    /\ index < Len(popup.items)
    /\ popup' = confirm_selection([popup EXCEPT !.selected_index = index])
    /\ popup_visible' = FALSE
    /\ session' = [session EXCEPT !.confirms = @ + 1]
    /\ UNCHANGED <<storeVars, popup_call, nonDelegateVars>>

\* clearHistory_ of the status menu
clearHistory_ ==
    /\ old_history' = history
    /\ history' = <<>>
    /\ file' = save_history(history')
    /\ last' = Call("clear_history", None, None, None, 1, <<>>)
    /\ popup' = IF popup_visible THEN hide(popup, TRUE, 0) ELSE popup
    /\ popup_visible' = FALSE
    /\ UNCHANGED <<max_history, last_change_count, running, pasteboard, now,
                   current_count>>
    /\ UNCHANGED <<popup_call, session, nonDelegateVars>>

\* _on_item_delete(index), which the popup calls for the row at index of the
\* items it shows
on_item_delete(index) ==
    /\ popup.is_visible
    /\ session.deletes < MaxDeletes
    /\ index < Len(popup.items)
    /\ old_history' = history
    /\ IF 0 <= index /\ index < Len(history)
       THEN /\ history' = RemoveAt(history, index)
            /\ file' = save_history(history')
            /\ last' = Call("delete_item", Some(index), None, Some(TRUE), 1, <<>>)
       ELSE /\ last' = Call("delete_item", Some(index), None, Some(FALSE), 0, <<>>)
            /\ UNCHANGED <<history, file>>
    /\ session' = [session EXCEPT !.deletes = @ + 1]
    /\ UNCHANGED <<max_history, last_change_count, running, pasteboard, now,
                   current_count>>
    /\ UNCHANGED <<popup, popup_call, popup_visible, nonDelegateVars>>

---------------------------------------------------------------------------

(* Specifications *)

EmptyPasteboard == [changeCount |-> 0, clip |-> Clip(None, None, None)]

\* the first launch: no history file; the monitor is constructed and started,
\* the hotkey handler is listening
Init ==
    /\ history = <<>>
    /\ max_history \in MaxHistories
    /\ last_change_count = 0
    /\ running = TRUE
    /\ file = None
    /\ pasteboard = EmptyPasteboard
    /\ now = 0
    /\ current_count = NoCount
    /\ last = Call("__init__", None, None, None, 0, <<>>)
    /\ old_history = <<>>
    /\ hk_event = None
    /\ hk_result = Result(0, FALSE, None)
    /\ terminated = FALSE
    /\ pos_args = None
    /\ pos_result = None
    /\ heap = [i \in ListIds |-> <<>>]
    /\ history_ref = 1
    /\ snapshot_ref = None
    /\ snapshot_copy = <<>>
    /\ snapshot_later = {}
    /\ heap_clock = 0
    /\ popup = CreatedPopup
    /\ popup_call = PopupCall("create", 0, CreatedPopup, CreatedPopup, None)
    /\ permission = FALSE
    /\ main_pc = "init"
    /\ has_accessibility_permission = FALSE
    /\ permission_check_timer = None
    /\ live_timers = {}
    /\ hotkey_handler = 0
    /\ handlers = <<>>
    /\ main_queue = <<>>
    /\ ui_log = {}
    /\ key_events = 0
    /\ disk = MissingFile
    /\ constructed = None
    /\ others = [i \in 1..MaxInstances |-> OtherInstance("absent", "idle")]
    /\ new_instance = [pc |-> "main", found |-> {}, response |-> 0,
                       watcher |-> FALSE, io |-> "idle"]
    /\ lock = "free"
    /\ threads = [t \in Threads |-> Thread("idle", "idle", 0, None)]
    /\ shared_history = <<>>
    /\ shared_file = None
    /\ monitor_thread = 1
    /\ poll_threads = <<PollThread("while", None, FALSE)>>
    /\ stop_pc = "idle"
    /\ rewrite = NoWrite
    /\ popup_visible = FALSE
    /\ session = Session(0, 0)

Next ==
    \/ \E clip \in Clips : PasteboardChange(clip)
    \/ check_clipboard
    \/ \E index \in DeleteIndices(history) : delete_item(index)
    \/ clear_history
    \/ applicationWillTerminate
    \/ \E max \in MaxHistories : applicationDidFinishLaunching(max)

Spec == Init /\ [][Next]_vars

NextHotkey ==
    \E event \in Events, on_trigger \in {"returns", "raises"} :
        event_callback(event, on_trigger) /\ UNCHANGED listenerVars

SpecHotkey == Init /\ [][NextHotkey]_vars

NextPosition ==
    \E element_rect \in ElementRects, popup_height \in PopupHeights,
       screens \in ScreenLayouts :
        PositionPopup(element_rect, popup_height, screens)

SpecPosition == Init /\ [][NextPosition]_vars

NextSnapshot ==
    \/ get_history
    \/ \E args \in AddArgs : add_to_history(args)
    \/ \E index \in DeleteIndices(heap[history_ref]) : delete_item_in_place(index)
    \/ clear_history_in_place

SpecSnapshot == Init /\ [][NextSnapshot]_vars

NextPopup ==
    \/ \E hist \in PopupHistories, element \in FocusedElements,
          app \in FrontmostApps :
            showPopupFromHotkey(hist, element, app) /\ UNCHANGED popup_call
    \/ \E key_code \in {126, 125, 36, 53} :
            keyDown(key_code) /\ UNCHANGED popup_call
    \/ \E index \in 0..1 : on_item_clicked(index) /\ UNCHANGED popup_call
    \/ \E index \in 0..1 : on_item_hovered(index) /\ UNCHANGED popup_call
    \/ handle_click /\ UNCHANGED popup_call
    \/ resignKeyWindow /\ UNCHANGED popup_call
    \/ \E timer \in popup.timers : TimerFires(timer) /\ UNCHANGED popup_call

SpecPopup == Init /\ [][NextPopup]_vars

\* the same events, each call observed
NextPopupOps ==
    \/ \E hist \in MixedHistories, element \in FocusedElements,
          app \in FrontmostApps :
            \E case \in IF popup.ordered_in \/ hist = <<>>
                         THEN {CHOOSE c \in PlacementCases : TRUE}
                         ELSE PlacementCases :
                showPopupFromHotkey_placed(hist, element, app, case)
    \/ \E key_code \in {126, 125, 36, 53} :
            Observed(keyDown(key_code), "keyDown_", key_code)
    \/ \E index \in 0..1 :
            Observed(on_item_clicked(index), "_on_item_clicked", index)
    \/ \E index \in 0..1 :
            Observed(on_item_hovered(index), "_on_item_hovered", index)
    \/ Observed(handle_click, "handle_click", 0)
    \/ Observed(resignKeyWindow, "resignKeyWindow", 0)
    \/ \E timer \in popup.timers : Observed(TimerFires(timer), "timer", 0)

SpecPopupOps == Init /\ [][NextPopupOps]_vars

\* the methods of the popup called with any index and in any state
NextPopupApi ==
    \/ NextPopupOps
    \/ \E index \in 0..2 :
            Observed(on_item_clicked_beyond(index), "_on_item_clicked", index)
    \/ Observed(confirm_selection_call, "confirm_selection", 0)

SpecPopupApi == Init /\ [][NextPopupApi]_vars

NextListener ==
    \/ GrantPermission
    \/ RevokePermission
    \/ applicationDidFinishLaunching_
    \/ applicationDidFinishLaunching_end
    \/ \E h \in 1..2 : run_event_tap(h)
    \/ performSelectorOnMainThread
    \/ \E timer \in live_timers : checkPermissionTimer_(timer)
    \/ \E h \in 1..2, event \in ListenerEvents : KeyEvent(h, event)

SpecListener == Init /\ [][NextListener]_vars

\* the threads are scheduled, the main run loop performs what is sent to it,
\* and the repeating timers fire; no assumption on the user or the keyboard
SpecListenerFair ==
    /\ SpecListener
    /\ WF_vars(applicationDidFinishLaunching_)
    /\ WF_vars(applicationDidFinishLaunching_end)
    /\ \A h \in 1..2 : WF_vars(run_event_tap(h))
    /\ WF_vars(performSelectorOnMainThread)
    /\ WF_vars(\E timer \in live_timers : checkPermissionTimer_(timer))


\* the watcher alone: other applications write the pasteboard while _poll_loop
\* runs _check_clipboard every 0.3 s
NextPoll ==
    \/ \E clip \in Clips : PasteboardChange(clip)
    \/ check_clipboard

\* the poll thread is scheduled: a poll that would do something is made
SpecPollFair == Init /\ [][NextPoll]_vars /\ WF_vars(check_clipboard)


NextLoad ==
    \/ \E f \in HistoryFiles : WriteHistoryFile(f)
    \/ ClipboardMonitor_init

SpecLoad == Init /\ [][NextLoad]_vars


NextInstances ==
    \/ \E i \in 1..MaxInstances : OtherStarts(i)
    \/ \E i \in 1..MaxInstances : OtherPolls(i)
    \/ \E i \in 1..MaxInstances : OtherEnds(i)
    \/ main_check
    \/ \E response \in {1000, 1001} : main_alert(response)
    \/ main_run
    \/ NewPolls

SpecInstances == Init /\ [][NextInstances]_vars


NextLock ==
    \/ \E arg \in 1..2 : CallMonitor("poll", "_add_to_history", arg)
    \/ \E arg \in 0..1 : CallMonitor("main", "delete_item", arg)
    \/ \E op \in {"clear_history", "get_history", "stop"} :
            CallMonitor("main", op, 0)
    \/ \E t \in Threads : Acquire(t)
    \/ \E t \in Threads : Locked(t)
    \/ \E t \in Threads : SaveLocked(t)
    \/ \E t \in Threads : WriteFile(t)
    \/ \E t \in Threads : OnChange(t)

SpecLock == Init /\ [][NextLock]_vars

NextWatcher ==
    \/ \E clip \in WatchClips :
          pasteboard.changeCount < MaxWatchChanges /\ PasteboardChange(clip)
    \/ monitor_start
    \/ monitor_stop
    \/ \E timed_out \in BOOLEAN : join(timed_out)
    \/ stop_save
    \/ \E t \in 1..Len(poll_threads) : loop_test(t)
    \/ \E t \in 1..Len(poll_threads), raises \in BOOLEAN : check_read(t, raises)
    \/ \E t \in 1..Len(poll_threads), raises \in BOOLEAN :
            poll_add_to_history(t, raises)
    \/ \E t \in 1..Len(poll_threads) : sleep(t)

SpecWatcher == Init /\ [][NextWatcher]_vars

\* other applications copy, the poll thread polls, and one confirm_selection
\* writes an entry of the history back to the pasteboard
NextRewrite ==
    \/ \E clip \in RewriteClips : rewrite.pc = "idle" /\ PasteboardChange(clip)
    \/ check_clipboard
    \/ \E index \in 0..(Len(history) - 1) : confirm_clearContents(index)
    \/ \E bumps \in BOOLEAN : confirm_setData(bumps)
    \/ \E bumps \in BOOLEAN : confirm_setString(bumps)

SpecRewrite == Init /\ [][NextRewrite]_vars

\* the popup as the delegate drives it
NextDelegate ==
    \/ \E hist \in DelegateHistories :
          delegate_showPopupFromHotkey(hist, Some("AXTextField"), Some("TextEdit"))
    \/ \E key_code \in MonitorKeys : key_local(key_code)
    \/ \E key_code \in MonitorKeys : key_global(key_code)
    \/ \E index \in 0..1 : item_clicked(index)
    \/ clearHistory_
    \/ handle_click /\ UNCHANGED popup_call
    \/ resignKeyWindow /\ UNCHANGED popup_call
    \/ \E timer \in popup.timers : TimerFires(timer) /\ UNCHANGED popup_call

SpecDelegate == Init /\ [][NextDelegate]_vars

\* the popup shows the history of the monitor while the poll thread adds to it
NextDelete ==
    \/ \E clip \in WatchClips : PasteboardChange(clip)
    \/ check_clipboard
    \/ delegate_showPopupFromHotkey(history, Some("AXTextField"), Some("TextEdit"))
    \/ \E index \in 0..(MaxCap - 1) : on_item_delete(index)
    \/ key_local(53)
    \/ \E timer \in popup.timers : TimerFires(timer) /\ UNCHANGED popup_call

SpecDelete == Init /\ [][NextDelete]_vars

---------------------------------------------------------------------------
(* Properties *)

\* two entries are identical: same content type, text and image bytes
Identical(a, b) ==
    /\ a.content_type = b.content_type
    /\ a.text_content = b.text_content
    /\ a.image_data = b.image_data

DuplicateFree(h) ==
    \A i, j \in 1..Len(h) : i # j => ~Identical(h[i], h[j])

\* the latest call ran _add_to_history
Added == last.op = "_check_clipboard" /\ last.added # None

\* C1: starting from an empty history, after any sequence of adds, deletes,
\* clears and relaunches the history never holds two identical entries.
C1_DedupInvariant == DuplicateFree(history)

\* an add of a mixed entry that was already in the history has happened
C1_Witness ==
    /\ Added
    /\ Get(last.added).content_type = "mixed"
    /\ \E k \in 1..Len(old_history) : Identical(old_history[k], Get(last.added))
    /\ Len(history) >= 2

\* C2: at every point after construction the history holds at most
\* max_history entries.
C2_CapInvariant == Len(history) <= max_history

\* C3: adding an entry identical to an entry E of a duplicate-free history
\* leaves the length unchanged, puts the entry at index 0 and keeps the order
\* of the other entries.
C3_DuplicateMovesToFront ==
    \A k \in 1..Len(old_history) :
        (/\ Added
         /\ DuplicateFree(old_history)
         /\ Identical(old_history[k], Get(last.added)))
        => /\ Len(history) = Len(old_history)
           /\ history[1] = Get(last.added)
           /\ \A j \in 1..(k - 1) : history[j + 1] = old_history[j]
           /\ \A j \in (k + 1)..Len(old_history) : history[j] = old_history[j]

\* C4: adding a non-duplicate entry to a history of max_history entries gives
\* the new entry followed by the first max_history - 1 previous entries.
C4_EvictsOldest ==
    (/\ Added
     /\ Len(old_history) = max_history
     /\ \A k \in 1..Len(old_history) :
            ~Identical(old_history[k], Get(last.added)))
    => /\ Len(history) = max_history
       /\ history[1] = Get(last.added)
       /\ \A j \in 1..(max_history - 1) : history[j + 1] = old_history[j]

\* the fields of an entry that the history file keeps
Stored(item) ==
    <<item.content_type, item.timestamp, item.text_content, item.image_data>>

StoredList(h) == [i \in 1..Len(h) |-> Stored(h[i])]

\* C5: _save_history followed by _load_history into a fresh store gives the
\* same entries in the same order, image bytes included; so the history a
\* launch loads is the one the previous process held when it stopped.
C5_PersistenceRoundTrip ==
    /\ StoredList(load_history(<<>>, save_history(history))) = StoredList(history)
    /\ last.op = "__init__" => StoredList(history) = StoredList(old_history)

\* a launch has loaded a history with a text, an image and a mixed entry
C5_Witness ==
    /\ last.op = "__init__"
    /\ Len(history) = 3
    /\ {history[i].content_type : i \in 1..Len(history)} = {"text", "image", "mixed"}
    /\ \E i \in 1..Len(history) : history[i].timestamp.microsecond # 0

\* C6: a poll that reads the change count the previous poll read adds no
\* entry, does not save and does not call on_change.
C6_IdempotentPoll ==
    [][(check_clipboard /\ current_count = pasteboard.changeCount)
       => /\ history' = history
          /\ file' = file
          /\ last'.saves = 0
          /\ last'.on_change = <<>>]_vars

\* a poll has found the change count of the poll that added the newest entry,
\* and has done nothing
C6_Witness ==
    /\ last.op = "_check_clipboard"
    /\ last.saves = 0
    /\ current_count = pasteboard.changeCount
    /\ last_change_count = pasteboard.changeCount
    /\ pasteboard.clip = Clip(Some(<<"a">>), None, None)
    /\ Len(history) > 0
    /\ history = old_history
    /\ history[1].text_content = Some(<<"a">>)
    /\ history[1].timestamp = datetime_now(now - 1)

IsTrigger(event) ==
    /\ event.type = "kCGEventKeyDown"
    /\ event.key_code = KEY_V
    /\ {"command", "alternate"} \subseteq event.flags

IsQuit(event) ==
    /\ event.type = "kCGEventKeyDown"
    /\ event.key_code = KEY_C
    /\ "control" \in event.flags

\* C7: every key-down of V with Command and Option causes exactly one
\* on_trigger call and is suppressed, whatever on_trigger does.
C7_TriggerSuppressed ==
    (hk_event # None /\ IsTrigger(Get(hk_event)))
    => /\ hk_result.on_trigger_calls = 1
       /\ hk_result.returned = None

\* C8: a key-down that is neither the trigger nor the quit combination calls
\* nothing and is returned unmodified.
C8_PassThrough ==
    (/\ hk_event # None
     /\ Get(hk_event).type = "kCGEventKeyDown"
     /\ ~IsTrigger(Get(hk_event))
     /\ ~IsQuit(Get(hk_event)))
    => /\ hk_result.on_trigger_calls = 0
       /\ hk_result.returned = hk_event
       /\ ~terminated

\* a key-down of V with Command alone has passed through
C8_Witness ==
    /\ hk_event # None
    /\ Get(hk_event).type = "kCGEventKeyDown"
    /\ Get(hk_event).key_code = KEY_V
    /\ Get(hk_event).flags = {"command"}
    /\ hk_result.returned = hk_event

\* C9: delete_item with an index outside the list returns False, leaves the
\* history unchanged and does not write the file.
C9_DeleteOutOfRange ==
    (/\ last.op = "delete_item"
     /\ (Get(last.index) < 0 \/ Get(last.index) >= Len(old_history)))
    => /\ last.ret = Some(FALSE)
       /\ history = old_history
       /\ last.saves = 0

\* delete_item(-1) on a history of two or more entries has returned False
C9_Witness ==
    /\ last.op = "delete_item"
    /\ last.index = Some(0 - 1)
    /\ Len(old_history) >= 2
    /\ last.ret = Some(FALSE)

\* C10: delete_item with a valid index returns True, removes exactly that
\* entry, keeps the others in order and then saves the history.
C10_DeleteValid ==
    (/\ last.op = "delete_item"
     /\ 0 <= Get(last.index)
     /\ Get(last.index) < Len(old_history))
    => /\ last.ret = Some(TRUE)
       /\ Len(history) = Len(old_history) - 1
       /\ \A j \in 1..Get(last.index) : history[j] = old_history[j]
       /\ \A j \in (Get(last.index) + 1)..Len(history) :
              history[j] = old_history[j + 1]
       /\ last.saves = 1
       /\ file = save_history(history)

\* the middle entry of a history of three has been deleted
C10_Witness ==
    /\ last.op = "delete_item"
    /\ last.index = Some(1)
    /\ Len(old_history) = 3
    /\ last.ret = Some(TRUE)

---------------------------------------------------------------------------
(* The position engine *)

\* calculate_popup_position has returned for an arrangement with a screen
Positioned == ~IsNone(pos_args) /\ Get(pos_args).screens # <<>>

\* the visible frame of the screen the latest call chose
PosScreenFrame ==
    TargetScreen(Get(pos_args).element_rect, Get(pos_args).screens).visibleFrame
screenMinY == PosScreenFrame.origin.y
screenMaxY == PosScreenFrame.origin.y + PosScreenFrame.size.height
primaryHeight == Get(pos_args).screens[1].frame.size.height

\* the two candidates as the specification writes them
Candidate_y_below ==
    (primaryHeight - (Get(pos_args).element_rect.y + Get(pos_args).element_rect.height))
        - 6 - Get(pos_args).popup_height
Candidate_y_above == (primaryHeight - Get(pos_args).element_rect.y) + 6

\* C11: for every element rectangle and every popup height not larger than
\* the visible height of the target screen, the returned y keeps the popup on
\* that screen: screenMinY <= y and y + popupHeight <= screenMaxY.
C11_OnTargetDisplay ==
    (Positioned /\ Get(pos_args).popup_height <= PosScreenFrame.size.height)
        => /\ screenMinY <= Get(pos_result).y
           /\ Get(pos_result).y + Get(pos_args).popup_height <= screenMaxY

\* C12: whenever y_below is at least screenMinY the call returns y = y_below
\* with show_above = False; for the rectangle y=100, height=20 on a 1000-tall
\* primary screen and popup height 200 the result is y = 674.
C12_Example ==
    /\ Positioned
    /\ Get(pos_args).element_rect.y = 100
    /\ Get(pos_args).element_rect.height = 20
    /\ primaryHeight = 1000
    /\ Get(pos_args).popup_height = 200

C12_BelowFits ==
    /\ (Positioned /\ Candidate_y_below >= screenMinY)
          => /\ Get(pos_result).y = Candidate_y_below
             /\ Get(pos_result).show_above = FALSE
    /\ C12_Example => Get(pos_result).y = 674

C12_Witness == C12_Example /\ Get(pos_result).y = 674

\* C13: when below does not fit (y_below < screenMinY) and above fits
\* (y_above + popupHeight <= screenMaxY) the call returns show_above = True
\* with y = (primaryHeight - rect.y) + 6, and that y lies within the bounds of
\* the screen.
C13_ForcedAbove ==
    (/\ Positioned
     /\ Candidate_y_below < screenMinY
     /\ Candidate_y_above + Get(pos_args).popup_height <= screenMaxY)
        => /\ Get(pos_result).show_above = TRUE
           /\ Get(pos_result).y = Candidate_y_above
           /\ screenMinY <= Get(pos_result).y
           /\ Get(pos_result).y + Get(pos_args).popup_height <= screenMaxY

---------------------------------------------------------------------------
(* The list handed out by get_history *)

\* C14: a list obtained from get_history is not changed by any later add,
\* delete_item or clear_history: it still holds what it held when returned.
C14_SnapshotUnchanged ==
    ~IsNone(snapshot_ref) => heap[Get(snapshot_ref)] = snapshot_copy

C14_Witness ==
    /\ ~IsNone(snapshot_ref)
    /\ Len(snapshot_copy) >= 2
    /\ snapshot_later = {"_add_to_history", "delete_item", "clear_history"}
    /\ heap[Get(snapshot_ref)] = snapshot_copy
    /\ heap[history_ref] # snapshot_copy

---------------------------------------------------------------------------
(* The popup *)

\* the place of an effect in the confirm sequence
Rank(effect) ==
    CASE effect = "pasteboard_write" -> 1
      [] effect = "hide" -> 2
      [] effect = "on_select" -> 3
      [] effect = "activateWithOptions_" -> 4
      [] effect = "AXFocus" -> 5
      [] effect = "key_down" -> 6
      [] effect = "key_up" -> 7

\* the effects of one confirm_selection call, in the order they happened
EffectsOf(confirm) ==
    LET mine(e) == e.confirm = confirm
        RECURSIVE Names(_)
        Names(es) == IF es = <<>> THEN <<>>
                     ELSE <<Head(es).effect>> \o Names(Tail(es))
    IN Names(SelectSeq(popup.effects, mine))

C16_FocusCleared ==
    ~popup.is_visible => /\ IsNone(popup.original_focused_element)
                         /\ IsNone(popup.original_frontmost_app)

---------------------------------------------------------------------------
(* The listeners *)

\* stop() has been called on handler h while its tap was installed
Stopped(h) == h \in 1..Len(handlers) /\ handlers[h].stopped

\* the installation of the intercept has failed for the current handler
InstallFailed ==
    hotkey_handler # 0 /\ handlers[hotkey_handler].permission_denied

\* an installed intercept is running in the current handler
InterceptRunning ==
    /\ hotkey_handler # 0
    /\ handlers[hotkey_handler].tap
    /\ handlers[hotkey_handler].thread = "loop"

\* C17: after stop() on a listener whose tap was installed, its event loop
\* has ended or is about to, and no later key event invokes on_trigger through
\* that listener.
C17_StoppedListenerSilent ==
    \A h \in 1..2 : Stopped(h) => handlers[h].triggers_after_stop = 0

\* C18: whenever the installation of the intercept fails and the permission
\* later becomes granted and stays granted, the periodic recheck eventually
\* restarts the listener so that an installed intercept is running, whatever
\* the launch-time check returned.
C18_PermissionRecovery ==
    (<>[]permission) => [](InstallFailed => <>InterceptRunning)

\* C19: when the creation of the event tap fails, the listener has invoked
\* on_permission_denied exactly once and on_trigger never, and its thread has
\* ended without running the event loop.
C19_DeniedIsSignaled ==
    \A h \in 1..2 :
        (h \in 1..Len(handlers) /\ handlers[h].permission_denied)
            => /\ handlers[h].denied_calls = 1
               /\ handlers[h].trigger_calls = 0
               /\ handlers[h].thread = "ended"
               /\ handlers[h].loop_runs = 0
               /\ ~handlers[h].tap

C19_Witness ==
    /\ Len(handlers) = 2
    /\ handlers[2].permission_denied
    /\ handlers[2].denied_calls = 1
    /\ handlers[2].thread = "ended"
    /\ handlers[1].trigger_calls > 0

\* C20: every action that touches the UI or the application state (popup
\* show/hide, application terminate, timer creation) executes on the main
\* thread; what starts on the hotkey thread is sent to the main thread first.
C20_MainThreadOnly ==
    \A a \in ui_log : a.thread = "main"


\* the pasteboard contents _check_clipboard recognises whatever the image
\* conversion does: text that is not only whitespace, or a readable PNG
RecognizedClips ==
    {clip \in Clips :
        /\ clip.tiff = None
        /\ \/ Truthy(clip.string) /\ strip(Get(clip.string)) # <<>>
           \/ Truthy(clip.png) /\ NSImage_initWithData(Get(clip.png))}

\* the history holds an entry with the text and the image of clip
HasEntry(clip) ==
    \E i \in 1..Len(history) :
        /\ (Truthy(clip.string) /\ strip(Get(clip.string)) # <<>>)
               => history[i].text_content = clip.string
        /\ (Truthy(clip.png) /\ NSImage_initWithData(Get(clip.png)))
               => history[i].image_data = clip.png

\* C21: while the watcher runs, every pasteboard change with recognised
\* content is eventually an entry of the history, also when several changes
\* happen between two polls
C21_NoMissedChange ==
    \A clip \in RecognizedClips :
        [](pasteboard.clip = clip => <>HasEntry(clip))


---------------------------------------------------------------------------
(* The popup, call by call *)

\* C22: showPopupFromHotkey with an empty history on a Hidden popup changes
\* nothing of the popup (it stays Hidden, no focus reference is stored); and
\* the popup is never visible with an empty item list.
C22_EmptyHistoryNoOp ==
    /\ (/\ popup_call.op = "showPopupFromHotkey"
        /\ popup_call.arg = 0
        /\ ~popup_call.was_ordered_in)
           => ~popup_call.changed /\ ~popup.is_visible /\ ~popup.ordered_in
    /\ popup.is_visible => popup.items # <<>>

\* the hotkey was pressed with an empty history after a full popup cycle
C22_Witness ==
    /\ popup_call.op = "showPopupFromHotkey"
    /\ popup_call.arg = 0
    /\ ~popup_call.was_ordered_in
    /\ popup.items # <<>>
    /\ popup.confirms = 1

\* C23: while the popup has items the selected index is within
\* [0, itemCount-1] after every arrow key, hover and update_items; arrow up at
\* index 0 and arrow down at the last index leave the index where it is.
C23_SelectionInRange ==
    /\ popup.items # <<>> => popup.selected_index \in 0..(Len(popup.items) - 1)
    /\ (popup_call.op = "keyDown_" /\ popup_call.arg = 126
        /\ popup_call.was_selected = 0) => popup.selected_index = 0
    /\ (popup_call.op = "keyDown_" /\ popup_call.arg = 125
        /\ popup_call.was_selected = Len(popup.items) - 1)
           => popup.selected_index = popup_call.was_selected

\* arrow down was pressed on the last of two items
C23_Witness ==
    /\ popup_call.op = "keyDown_"
    /\ popup_call.arg = 125
    /\ Len(popup.items) = 2
    /\ popup_call.was_selected = 1
    /\ popup.selected_index = 1

\* C24: toggle hotkey, Escape, click outside, loss of key-window status and a
\* confirm each leave a Visible popup not visible; the same triggers arriving
\* during the hide animation change nothing.
C24_HideTriggers ==
    LET trigger ==
            \/ popup_call.op \in {"showPopupFromHotkey", "handle_click",
                                  "resignKeyWindow", "_on_item_clicked"}
            \/ popup_call.op = "keyDown_" /\ popup_call.arg \in {53, 36}
    IN /\ (trigger /\ popup_call.was_visible) => ~popup.is_visible
       /\ (trigger /\ popup_call.was_ordered_in /\ ~popup_call.was_visible)
              => ~popup_call.changed

\* C25: a confirm writes the PNG type alone for an image entry, the PNG and
\* the string type for a mixed entry, and the string type alone for a text
\* entry, each time with the content of the entry confirmed.
C25_WriteByType ==
    LET clicked == popup_call.op = "_on_item_clicked"
        entered == popup_call.op = "keyDown_" /\ popup_call.arg = 36
        item == popup.items[(IF clicked THEN popup_call.arg
                             ELSE popup_call.was_selected) + 1]
        mine(e) == e.confirm = popup.confirms /\ e.effect = "pasteboard_write"
        writes == SelectSeq(popup.effects, mine)
    IN ((clicked \/ entered) /\ popup_call.changed) =>
          /\ Len(writes) = 1
          /\ writes[1].data =
               Some(CASE item.content_type = "image" ->
                             [string |-> None, png |-> item.image_data,
                              tiff |-> None]
                      [] item.content_type = "mixed" ->
                             [string |-> item.text_content,
                              png |-> item.image_data, tiff |-> None]
                      [] item.content_type = "text" ->
                             [string |-> item.text_content, png |-> None,
                              tiff |-> None])

\* Return was pressed on a mixed entry
C25_Witness ==
    /\ popup_call.op = "keyDown_"
    /\ popup_call.arg = 36
    /\ popup_call.changed
    /\ popup.items[popup_call.was_selected + 1].content_type = "mixed"
    /\ popup.confirms = 1

\* C26: confirm_selection with an empty item list or with a selected index
\* beyond the item count, and a click with an index beyond the item count,
\* change nothing of the popup: selected index, visibility, focus references,
\* pasteboard writes and scheduled timers stay as they were.
C26_OutOfRangeNoOp ==
    LET count == Len(popup.items)
    IN (\/ /\ popup_call.op = "confirm_selection"
           /\ (count = 0 \/ popup_call.was_selected >= count)
        \/ /\ popup_call.op = "_on_item_clicked"
           /\ popup_call.arg >= count)
          => ~popup_call.changed

\* C29: when the focused element has no rectangle the hotkey still shows the
\* popup, at the centre of the main screen, with show_above False, and the
\* position engine is not called.
C29_FallbackPlacement ==
    (/\ popup_call.op = "showPopupFromHotkey"
     /\ popup_call.placement # None
     /\ Get(popup_call.placement).case.element_rect = None)
       => LET case == Get(popup_call.placement).case
              placed == Get(popup_call.placement).placed
          IN /\ popup.is_visible
             /\ ~placed.engine
             /\ ~placed.position.show_above
             /\ case.main_screen # None =>
                  LET frame == Get(case.main_screen).frame
                  IN /\ placed.position.x
                          = frame.origin.x + frame.size.width \div 2
                     /\ placed.position.y
                          = frame.origin.y + frame.size.height \div 2


---------------------------------------------------------------------------
(* Loading the history file *)

\* the file is missing, is not JSON, or holds a record that does not decode
Undecodable(f) ==
    \/ ~f.exists
    \/ ~f.json
    \/ \E i \in 1..Len(f.data) : ~Decodes(f.data[i])

\* C27: when the history file is missing or any part of it cannot be decoded
\* (invalid JSON, or one record with a malformed field), the construction of
\* ClipboardMonitor raises nothing and the history is empty.
C27_LoadFailureEmpty ==
    (constructed # None /\ Undecodable(Get(constructed).file))
       => /\ ~Get(constructed).raised
          /\ Get(constructed).history = <<>>


---------------------------------------------------------------------------
(* A second instance *)

\* C28 as stated: a process that found another instance never has its watcher
\* started while an instance it found is still running, so the two never
\* poll the pasteboard or write the history file at the same time.
C28_NeverTogether ==
    \A i \in new_instance.found :
        /\ ~(new_instance.watcher /\ Alive(others[i]))
        /\ ~(new_instance.io # "idle" /\ others[i].io # "idle")

\* C28: a process that found other instances either exits without starting
\* its watcher (Quit New Instance), or starts it only after forceTerminate has
\* been sent to every instance it found; it does not wait for them to end.
C28_TerminationRequested ==
    /\ new_instance.response = 1000
          => new_instance.pc = "exited" /\ ~new_instance.watcher
    /\ new_instance.watcher
          => \A i \in new_instance.found : others[i].state # "running"

\* the new process is writing the history file while an instance it has sent
\* forceTerminate to is still writing it
C28_Witness ==
    /\ new_instance.watcher
    /\ new_instance.io = "write"
    /\ \E i \in new_instance.found :
          others[i].state = "killed" /\ others[i].io = "write"


---------------------------------------------------------------------------
(* The history lock *)

\* C30: no two threads are inside the history lock at once; a thread writing
\* the history file or running on_change does not hold the lock; a thread in
\* front of `with self._lock` does not hold it already; and whoever holds the
\* lock is inside a locked block, so it will release it.
C30_LockDiscipline ==
    /\ \A t \in Threads, u \in Threads :
          (t # u /\ threads[t].pc \in {"locked", "save_locked"})
             => threads[u].pc \notin {"locked", "save_locked"}
    /\ \A t \in Threads :
          /\ threads[t].pc \in {"write", "on_change"} => lock # t
          /\ threads[t].pc \in {"lock", "save_lock"} => lock # t
          /\ lock = t => threads[t].pc \in {"locked", "save_locked"}

\* the poll thread, out of the lock, writes the history file while the main
\* thread is inside the locked block of delete_item
C30_Witness ==
    /\ threads["poll"].pc = "write"
    /\ threads["main"].pc = "locked"
    /\ threads["main"].op = "delete_item"
    /\ lock = "main"


\* the pasteboard holds image data NSImage can read: PNG data, or TIFF data
\* when there is no PNG type
ReadableImage(clip) ==
    IF clip.png # None
    THEN Truthy(clip.png) /\ NSImage_initWithData(Get(clip.png))
    ELSE clip.tiff # None /\ Truthy(clip.tiff)
         /\ NSImage_initWithData(Get(clip.tiff))

\* C31: a poll that detects a change records the change counter and classifies
\* the pasteboard: text and a readable image give a mixed entry holding both,
\* a readable image alone gives an image entry without text, text alone gives
\* a text entry without image data, and neither gives no entry; every entry
\* made has text or image data, and image bytes that cannot be decoded are
\* never stored in an entry.
C31_PollClassification ==
    [][(last_change_count' # last_change_count /\ last'.op = "_check_clipboard")
       => LET clip == pasteboard.clip
              text == Truthy(clip.string) /\ strip(Get(clip.string)) # <<>>
              image == ReadableImage(clip)
              added == last'.added
              item == Get(added)
          IN /\ last_change_count' = pasteboard.changeCount
             /\ (~text /\ ~image) => added = None
             /\ text => added # None /\ item.text_content = clip.string
             /\ (text /\ ~image) =>
                    item.content_type = "text" /\ item.image_data = None
             /\ (image /\ clip.png # None) =>
                    /\ added # None
                    /\ item.image_data = clip.png
                    /\ item.content_type = IF text THEN "mixed" ELSE "image"
             /\ added # None =>
                    /\ item.content_type \in {"text", "image", "mixed"}
                    /\ item.text_content # None \/ item.image_data # None
                    /\ item.content_type = "image" => item.text_content = None
                    /\ item.content_type = "text" => item.image_data = None
                    /\ item.image_data # None =>
                           NSImage_initWithData(Get(item.image_data))]_vars


\* the space on either side of the element of the latest call
flippedTop == primaryHeight - Get(pos_args).element_rect.y
flippedBottom ==
    primaryHeight - (Get(pos_args).element_rect.y + Get(pos_args).element_rect.height)
NeitherFits ==
    /\ Positioned
    /\ Candidate_y_below < screenMinY
    /\ Candidate_y_above + Get(pos_args).popup_height > screenMaxY

\* C35: when the popup fits on neither side, show_above is True exactly when
\* screenMaxY - flippedTop is strictly greater than flippedBottom - screenMinY
\* (equal space chooses below); above, y is clamped to screenMaxY - popupHeight,
\* and below, to screenMinY.
C35_TieBreak ==
    NeitherFits =>
        /\ Get(pos_result).show_above
               = (screenMaxY - flippedTop > flippedBottom - screenMinY)
        /\ Get(pos_result).y = IF Get(pos_result).show_above
                               THEN screenMaxY - Get(pos_args).popup_height
                               ELSE screenMinY

\* equal space on both sides: the popup goes below, at the bottom of the screen
C35_Witness ==
    /\ NeitherFits
    /\ screenMaxY - flippedTop = flippedBottom - screenMinY
    /\ Get(pos_result) = Position(center_x(Get(pos_args).element_rect),
                                  screenMinY, FALSE)


\* C36: once the calls of the poll thread and of the main thread have all
\* returned, the history file holds the history in memory: no interleaving of
\* two _save_history calls leaves an older list in the file.
C36_FileConverges ==
    (/\ \A t \in Threads : threads[t].pc = "idle"
     /\ shared_file # None)
        => shared_file = save_history(shared_history)


\* C33: the poll loop survives failures: an iteration that raises, in
\* _check_clipboard or in the on_change callback, does not end the loop, which
\* ends only at its loop test once the watcher is no longer running; and a
\* thread that has had a failure still detects the next pasteboard change.
C33_LoopSurvives ==
    [][\A t \in 1..Len(poll_threads) :
          /\ (poll_threads[t].pc # "ended" /\ poll_threads'[t].pc = "ended")
                => (poll_threads[t].pc = "while" /\ ~running)
          /\ (/\ poll_threads[t].raised
              /\ poll_threads[t].pc = "check"
              /\ poll_threads'[t].pc # "check"
              /\ pasteboard.changeCount # last_change_count)
                => /\ last_change_count' = pasteboard.changeCount
                   /\ poll_threads'[t].pc \in {"add", "sleep"}]_vars

\* a thread whose earlier iteration raised has detected a later change and is
\* about to add it, the watcher still running
C33_Witness ==
    \E t \in 1..Len(poll_threads) :
        /\ running
        /\ poll_threads[t].raised
        /\ poll_threads[t].pc = "add"
        /\ history # <<>>

\* stop() has returned and start() has not been called since
StoppedAfterStop == ~running /\ stop_pc = "idle"

\* C34: start() makes a stopped watcher running and does nothing to a running
\* one; stop() makes it stopped, waits a bounded time for the poll thread and
\* then saves, so that once stop() has returned the history file equals the
\* history in memory and no poll step changes the history any more.
C34_Lifecycle ==
    [][/\ (last' # last /\ last'.op = "start")
            => /\ running'
               /\ running => UNCHANGED <<monitor_thread, poll_threads>>
       /\ (last' # last /\ last'.op = "stop") => ~running'
       /\ StoppedAfterStop
            => /\ file = save_history(history)
               /\ history' = history]_vars

\* the threads inside _poll_loop
Polling == {t \in 1..Len(poll_threads) : poll_threads[t].pc # "ended"}

\* C40: whatever start() and stop() calls are made, a stop() whose join times
\* out included, at most one thread is executing _poll_loop.
C40_OnePollLoop == Cardinality(Polling) <= 1


\* C32: polls that run during or after the pasteboard write of
\* confirm_selection for an entry E of the history add no entry that was not
\* in the history: the length of the history is unchanged, every entry is one
\* that was there, and once a poll has seen the finished write E is at the
\* front.
C32_OwnWriteNotGrown ==
    rewrite.pc # "idle" =>
        /\ Len(history) = Len(rewrite.before)
        /\ \A k \in 1..Len(history) :
               \E j \in 1..Len(rewrite.before) :
                   Identical(history[k], rewrite.before[j])
        /\ (/\ rewrite.pc = "done"
            /\ last_change_count = pasteboard.changeCount)
               => Identical(history[1], Get(rewrite.item))


\* C37: between one show of the popup and the next at most one confirm takes
\* effect (one pasteboard write, one on_select, one paste), also when Return
\* or a click on an item arrives again while the hide animation runs.
C37_OnePastePerSession == session.confirms <= 1

\* C38: after every transition the delegate's _popup_visible is True exactly
\* when the popup's _is_visible is True.
C38_VisibleAgrees == popup_visible = popup.is_visible

\* C39: a delete requested from the popup for index i, the first since the
\* popup was shown with the history S, removes S[i] from the store, even if
\* the poll thread has added an entry since the show.
C39_DeletesShownEntry ==
    [][(/\ session.deletes = 0
        /\ session'.deletes = 1
        /\ last'.ret = Some(TRUE))
       => LET i == Get(last'.index)
          IN /\ history' = RemoveAt(history, i)
             /\ history[i + 1] = popup.items[i + 1]]_vars

===========================================================================
